---- MODULE Spec2Model ----
(***************************************************************************)
(* Triage orchestration core of the LLM inference layer: the retry engine  *)
(* (retry/engine.py, retry/strategies.py), the validation pipeline         *)
(* (validation/*.py), the Celery task (tasks/triage_tasks.py) and the      *)
(* Redis dead letter queue (persistence/repository.py).                    *)
(***************************************************************************)
EXTENDS Integers, Sequences, FiniteSets, TLC

(***************************************************************************)
(* Bounds of the model.                                                    *)
(***************************************************************************)
\* MAX_RETRIES ranges over 0..MaxRetriesBound
MaxRetriesBound == 2
\* FALLBACK_MODELS ranges over the prefixes of ModelNames up to this length
MaxFallbackModels == 2
\* execute_with_retry calls one caller makes one after the other
MaxCalls == 2

(***************************************************************************)
(* Program constants.                                                      *)
(***************************************************************************)
\* engine.py:97  ("shrink", shrink_strat, 2)
ShrinkMaxAttempts == 2
\* triage_tasks.py:107  max_retries=3
TaskMaxRetries == 3
\* repository.py:239  ltrim(DLQ_KEY, 0, 9999)
DlqTrimStop == 9999

Callers == {"c1", "c2"}
ModelNames == <<"fb1", "fb2", "fb3">>
PrimaryModel == "primary"
None == "None"

Min(a, b) == IF a <= b THEN a ELSE b
Max(a, b) == IF a >= b THEN a ELSE b

(***************************************************************************)
(* The request every caller submits (tests/unit/retry/test_engine.py:69):  *)
(* two candidates, dictionary_version 1.  Field names are those of the     *)
(* pydantic models, so that DOMAIN gives the attributes an object has.     *)
(***************************************************************************)
Request(uid) ==
    [email |-> [uid |-> uid, body_text_canonical |-> "body"],
     candidate_keywords |-> << [candidate_id |-> "h1", term |-> "contratto", lemma |-> "contratto"],
                               [candidate_id |-> "h2", term |-> "informazioni", lemma |-> "informazioni"] >>,
     dictionary_version |-> 1,
     config_overrides |-> None]

TopicsEnum == {"FATTURAZIONE", "ASSISTENZATECNICA", "RECLAMO", "INFOCOMMERCIALI", "DOCUMENTI",
               "APPUNTAMENTO", "CONTRATTO", "GARANZIA", "SPEDIZIONE", "UNKNOWNTOPIC"}
SentimentEnum == {"positive", "neutral", "negative"}
PriorityEnum == {"low", "medium", "high", "urgent"}

(***************************************************************************)
(* LLM outputs.  An output is named by an id; ParsedJson gives what        *)
(* json.loads makes of it.                                                 *)
(***************************************************************************)
Topic(label, cid, quote_in_body) ==
    [labelid |-> label, confidence |-> 9,
     keywordsintext |-> << [candidateid |-> cid, lemma |-> "contratto", count |-> 1, spans |-> None] >>,
     evidence |-> << [quote |-> IF quote_in_body THEN "in body" ELSE "not in body", span |-> None] >>]

TriageObject(version, label, cid, quote_in_body) ==
    [dictionaryversion |-> version,
     sentiment |-> [value |-> "neutral", confidence |-> 8],
     priority |-> [value |-> "medium", confidence |-> 7, signals |-> << "s" >>],
     topics |-> << Topic(label, cid, quote_in_body) >>]

Contents == {"broken", "missing", "happy", "wrongver", "fake", "noevidence"}

\* kind: what json.loads yields; obj: the dict when it yields one
ParsedJson(content) ==
    CASE content = "broken" -> [kind |-> "JSONDecodeError", obj |-> None]
      [] content = "missing" -> [kind |-> "dict", obj |-> [missing |-> "fields"]]
      [] content = "happy" -> [kind |-> "dict", obj |-> TriageObject(1, "CONTRATTO", "h1", TRUE)]
      [] content = "wrongver" -> [kind |-> "dict", obj |-> TriageObject(2, "CONTRATTO", "h1", TRUE)]
      [] content = "fake" -> [kind |-> "dict", obj |-> TriageObject(1, "CONTRATTO", "fake", TRUE)]
      [] content = "noevidence" -> [kind |-> "dict", obj |-> TriageObject(1, "CONTRATTO", "h1", FALSE)]

(***************************************************************************)
(* Exceptions and results of the validation stages.                        *)
(***************************************************************************)
Ok(v) == [ok |-> TRUE, value |-> v]
Raise(type, details) == [ok |-> FALSE, type |-> type, details |-> details]

\* "no exception": last_error = None in the source
NoException == Ok(None)
NoResult == [kind |-> "none"]

ValidationErrorTypes == {"ValidationError", "JSONParseError", "SchemaValidationError", "BusinessRuleViolation"}

\* getattr on a pydantic model: the declared fields and nothing else
GetAttr(obj, name) ==
    IF name \in DOMAIN obj THEN Ok(obj[name]) ELSE Raise("AttributeError", [name |-> name])

\* the chain "run a; if it raised, propagate; else run b"
Then(a, b) == IF a.ok THEN b ELSE a

\* a for-loop whose body may raise: the first exception raised, else Ok
FirstRaise(results) ==
    IF \E i \in DOMAIN results : ~results[i].ok
    THEN results[CHOOSE i \in DOMAIN results : ~results[i].ok /\ \A j \in 1..(i-1) : results[j].ok]
    ELSE Ok(None)

(***************************************************************************)
(* Stage 1: json.loads of the content; anything but a dict is rejected.    *)
(***************************************************************************)
Stage1JSONParse(content) ==
    LET p == ParsedJson(content) IN
    IF p.kind = "dict"
    THEN Ok(p.obj)
    ELSE Raise("JSONParseError", [content_snippet |-> content, parse_error |-> p.kind])

(***************************************************************************)
(* Stage 2: Draft-7 validation against email_triage_v2.  The schema file   *)
(* is not part of the sources; its required properties and                 *)
(* additionalProperties:false are those of the interface description.      *)
(***************************************************************************)
SchemaRequired == {"dictionaryversion", "sentiment", "priority", "topics"}

Stage2SchemaValidation(data) ==
    IF DOMAIN data = SchemaRequired
    THEN Ok(data)
    ELSE Raise("SchemaValidationError",
               [validation_errors |-> (SchemaRequired \ DOMAIN data) \cup (DOMAIN data \ SchemaRequired)])

(***************************************************************************)
(* EmailTriageResponse.model_validate: the pydantic model between stage 2  *)
(* and stage 3 (extra="forbid", dictionaryversion >= 1, enum-typed fields).*)
(***************************************************************************)
EmailTriageResponseFields == {"dictionaryversion", "sentiment", "priority", "topics"}

ModelValidate(data) ==
    IF /\ DOMAIN data = EmailTriageResponseFields
       /\ data.dictionaryversion >= 1
       /\ data.sentiment.value \in SentimentEnum
       /\ data.priority.value \in PriorityEnum
       /\ Len(data.topics) \in 1..5
       /\ \A i \in DOMAIN data.topics : data.topics[i].labelid \in TopicsEnum
    THEN Ok(data)
    ELSE Raise("SchemaValidationError", [validation_errors |-> {"pydantic"}])

(***************************************************************************)
(* Stage 3: business rules, fail-fast, in the order of validate().         *)
(***************************************************************************)
\* stage3_business_rules.py:70  response.dictionary_version != request.dictionary_version
ValidateDictionaryVersion(response, request) ==
    LET a == GetAttr(response, "dictionary_version")
        b == GetAttr(request, "dictionary_version")
    IN Then(a, Then(b,
         IF a.value # b.value
         THEN Raise("BusinessRuleViolation", [rule_name |-> "dictionary_version_match"])
         ELSE Ok(None)))

\* stage3_business_rules.py:95-96  topic.labelid not in valid_topics
ValidateTopicLabels(response) ==
    LET topics == GetAttr(response, "topics")
        check(topic) ==
            LET l == GetAttr(topic, "labelid") IN
            Then(l, IF l.value \notin TopicsEnum
                    THEN Raise("BusinessRuleViolation", [rule_name |-> "topic_label_in_enum"])
                    ELSE Ok(None))
    IN Then(topics, FirstRaise([i \in DOMAIN topics.value |-> check(topics.value[i])]))

\* stage3_business_rules.py:126-131  keyword.candidate_id not in valid_candidateids
ValidateCandidateIds(response, request) ==
    LET cands == GetAttr(request, "candidate_keywords")
        ids == [i \in DOMAIN cands.value |-> GetAttr(cands.value[i], "candidate_id")]
        valid == {ids[i].value : i \in DOMAIN ids}
        topics == GetAttr(response, "topics")
        checkKw(kw) ==
            LET c == GetAttr(kw, "candidate_id") IN
            Then(c, IF c.value \notin valid
                    THEN Raise("BusinessRuleViolation", [rule_name |-> "candidateid_exists_in_input"])
                    ELSE Ok(None))
        checkTopic(topic) ==
            LET kws == GetAttr(topic, "keywordsintext") IN
            Then(kws, FirstRaise([k \in DOMAIN kws.value |-> checkKw(kws.value[k])]))
    IN Then(cands, Then(FirstRaise(ids), Then(topics,
            FirstRaise([i \in DOMAIN topics.value |-> checkTopic(topics.value[i])]))))

\* stage3_business_rules.py:158-173
ValidateSentimentPriority(response) ==
    IF response.sentiment.value \notin SentimentEnum
    THEN Raise("BusinessRuleViolation", [rule_name |-> "sentiment_in_enum"])
    ELSE IF response.priority.value \notin PriorityEnum
    THEN Raise("BusinessRuleViolation", [rule_name |-> "priority_in_enum"])
    ELSE Ok(None)

Stage3BusinessRules(response, request) ==
    Then(ValidateDictionaryVersion(response, request),
    Then(ValidateTopicLabels(response),
    Then(ValidateCandidateIds(response, request),
         ValidateSentimentPriority(response))))

(***************************************************************************)
(* Stage 4 and the verifiers return warnings.                              *)
(***************************************************************************)
\* confidences are tenths; MIN_CONFIDENCE_WARNING_THRESHOLD = 0.2
ConfidenceThreshold == 2

\* stage4_quality.py:62-86
CheckLowConfidence(response) ==
    (IF response.sentiment.confidence < ConfidenceThreshold THEN << "low sentiment confidence" >> ELSE << >>)
    \o (IF response.priority.confidence < ConfidenceThreshold THEN << "low priority confidence" >> ELSE << >>)
    \o (IF \E i \in DOMAIN response.topics : response.topics[i].confidence < ConfidenceThreshold
        THEN << "low topic confidence" >> ELSE << >>)

\* stage4_quality.py:109-118  [kw.candidate_id for kw in topic.keywordsintext]
CheckDuplicates(response) ==
    LET ids(topic) == [k \in DOMAIN topic.keywordsintext |-> GetAttr(topic.keywordsintext[k], "candidate_id")]
        perTopic == [i \in DOMAIN response.topics |-> FirstRaise(ids(response.topics[i]))]
    IN Then(FirstRaise(perTopic),
            Ok(IF \E i, j \in DOMAIN response.topics : i < j /\ response.topics[i].labelid = response.topics[j].labelid
               THEN << "duplicate topic" >> ELSE << >>))

\* stage4_quality.py:147-189 (quotes are never longer than 180 characters here)
CheckCompleteness(response) ==
    (IF \E i \in DOMAIN response.topics : Len(response.topics[i].keywordsintext) = 0
     THEN << "topic has no keywords" >> ELSE << >>)
    \o (IF \E i \in DOMAIN response.topics : Len(response.topics[i].evidence) = 0
        THEN << "topic has no evidence" >> ELSE << >>)
    \o (IF Len(response.priority.signals) = 0 THEN << "priority has no signals" >> ELSE << >>)

Stage4QualityChecks(response) ==
    LET d == CheckDuplicates(response) IN
    Then(d, Ok(CheckLowConfidence(response) \o d.value \o CheckCompleteness(response)))

\* verifiers.py:42, 126, 230  request.email_document.body_text_canonical
EvidencePresenceVerifier(response, request) ==
    LET doc == GetAttr(request, "email_document") IN
    Then(doc, Ok(IF \E i \in DOMAIN response.topics : \E e \in DOMAIN response.topics[i].evidence :
                       response.topics[i].evidence[e].quote = "not in body"
                 THEN << "Evidence quote not found in email text" >> ELSE << >>))

KeywordPresenceVerifier(response, request) ==
    LET doc == GetAttr(request, "email_document") IN
    Then(doc, Ok(<< >>))

SpansCoherenceVerifier(response, request) ==
    LET doc == GetAttr(request, "email_document") IN
    Then(doc, Ok(<< >>))

(***************************************************************************)
(* ValidationPipeline.validate: stages 1-3 raise, stage 4 and the          *)
(* verifiers extend warnings; pipeline.py:168-177 re-raises a              *)
(* ValidationError and wraps every other exception in a ValidationError.   *)
(***************************************************************************)
\* pipeline.py:146-166: stage 4 and the verifiers, then the return
Stage4AndVerifiers(response, request) ==
    LET s4 == Stage4QualityChecks(response)
        v1 == EvidencePresenceVerifier(response, request)
        v2 == KeywordPresenceVerifier(response, request)
        v3 == SpansCoherenceVerifier(response, request)
    IN Then(s4, Then(v1, Then(v2, Then(v3,
         Ok([response |-> response, warnings |-> s4.value \o v1.value \o v2.value \o v3.value])))))

\* pipeline.py:118-166: the body of the try
RunStages(content, request) ==
    LET s1 == Stage1JSONParse(content)
        s2 == Stage2SchemaValidation(s1.value)
        m  == ModelValidate(s1.value)
        s3 == Stage3BusinessRules(m.value, request)
    IN Then(s1, Then(s2, Then(m, Then(s3, Stage4AndVerifiers(m.value, request)))))

WrapUnexpected(r) ==
    IF r.ok \/ r.type \in ValidationErrorTypes
    THEN r
    ELSE Raise("ValidationError", [error_type |-> r.type])

PipelineValidate(content, request) == WrapUnexpected(RunStages(content, request))

(***************************************************************************)
(* State.                                                                  *)
(***************************************************************************)
VARIABLES
    settings,             \* Settings: MAX_RETRIES, FALLBACK_MODELS
    validation_pipeline,  \* the validator handed to RetryEngine.__init__
    llm_outputs,          \* what client.generate can yield: contents and gateway errors
    clients,              \* the callers that submit requests
    engine,               \* engine[c]: the process whose RetryEngine instance caller c uses
    current_model_index,  \* FallbackModelStrategy.current_model_index of each instance
    calls,                \* execute_with_retry calls each caller has made
    run,                  \* the locals of each caller's execute_with_retry
    task,                 \* the Celery job of each worker
    redis,                \* the Redis store: the list triage:dlq and the result keys
    redis_keys,           \* the Redis string keys with their TTL, and the sorted set
    repository,           \* the TriageRepository calls made directly: last call, clock
    prompt,               \* a PromptBuilder, the request given to it, the prompt it built
    api,                  \* the batch endpoint: the broker queue and the last HTTP response
    http                  \* one OllamaClient.generate call: its loop counter, requests, sleeps

retry_vars == << settings, validation_pipeline, llm_outputs, clients, engine,
                 current_model_index, calls, run, task, redis >>

repo_vars == << redis_keys, repository >>

prompt_vars == << prompt >>

edge_vars == << api, http >>

vars == << retry_vars, repo_vars, prompt_vars, edge_vars >>

\* no PromptBuilder call yet
NoPrompt == [built |-> [kind |-> "none"]]

\* no key, no call of the repository yet
EmptyKeys == [strings |-> {}, zset |-> {}]

IdleRepository == [last_call |-> [op |-> "none"], saved |-> {}, jobs |-> {}, now |-> 0, saves |-> 0]

\* no batch submitted: nothing on the broker queue, no response sent
IdleApi == [queue |-> << >>, response |-> [kind |-> "none"], requests |-> << >>,
            queue_before |-> 0, submitted |-> 0]

\* no generate call in progress
IdleHttp == [pc |-> "idle", max_retries |-> 0, attempt |-> 0, trace |-> << >>, result |-> NoResult]

GatewayErrors == {"LLMConnectionError", "LLMModelNotAvailableError"}

Validators == {"ValidationPipeline", "AsyncMock"}

\* the prefixes of ModelNames of length 0..MaxFallbackModels
FallbackLists == {SubSeq(ModelNames, 1, n) : n \in 0..MaxFallbackModels}

SettingsSpace == [MAX_RETRIES : 0..MaxRetriesBound, FALLBACK_MODELS : FallbackLists]

(***************************************************************************)
(* RetryEngine.__init__: the ladder (name, max_attempts).                  *)
(***************************************************************************)
\* the fallback budget taken as len(FALLBACK_MODELS), 0 for an empty list
StrategiesFallbackLen(s) ==
    << [name |-> "standard", max_attempts |-> s.MAX_RETRIES],
       [name |-> "shrink", max_attempts |-> ShrinkMaxAttempts],
       [name |-> "fallback", max_attempts |-> Len(s.FALLBACK_MODELS)] >>

Strategies(s) ==
    << [name |-> "standard", max_attempts |-> s.MAX_RETRIES],
       [name |-> "shrink", max_attempts |-> ShrinkMaxAttempts],
       [name |-> "fallback",
        max_attempts |-> IF Len(s.FALLBACK_MODELS) > 0 THEN Len(s.FALLBACK_MODELS) ELSE 1] >>

StrategyNames == << "standard", "shrink", "fallback" >>

\* the locals at the top of execute_with_retry, before the first strategy;
\* executed lists the strategy.execute calls made so far, each with its outcome,
\* llm_response is what the last of them got from client.generate
FreshRun ==
    [status |-> "running", strategy |-> 0, attempt |-> 0, total_attempts |-> 0,
     strategies_used |-> << >>, validation_failures |-> << >>, last_error |-> NoException,
     executed |-> << >>, llm_response |-> None, result |-> NoResult]

IdleRun == [FreshRun EXCEPT !.status = "idle"]

(***************************************************************************)
(* The validator.  ValidationPipeline is the shipped one; AsyncMock is the *)
(* double the engine's unit tests inject, which returns its return_value   *)
(* or raises the ValidationError it was given as side_effect.              *)
(***************************************************************************)
MockResponse == TriageObject(1, "CONTRATTO", "h1", TRUE)

MockValidateOutcomes ==
    {Ok([response |-> MockResponse, warnings |-> << "warning" >>]),
     Raise("ValidationError", [mock |-> "side_effect"])}

ValidateOutcomes(content, request) ==
    IF validation_pipeline = "ValidationPipeline"
    THEN {PipelineValidate(content, request)}
    ELSE MockValidateOutcomes

\* client.generate yielding g, followed by validator.validate
GenerateAndValidate(g, request) ==
    IF g \in GatewayErrors THEN {Raise(g, [gateway |-> g])} ELSE ValidateOutcomes(g, request)

(***************************************************************************)
(* strategy.execute                                                        *)
(***************************************************************************)
\* the first fallback model every time, the cursor ignored
SelectModelFirst(name, idx) ==
    IF name = "fallback" THEN settings.FALLBACK_MODELS[1] ELSE PrimaryModel

\* the model of the LLMGenerationRequest; the fallback strategy reads the cursor
SelectModel(name, idx) ==
    IF name = "fallback"
    THEN settings.FALLBACK_MODELS[(idx % Len(settings.FALLBACK_MODELS)) + 1]
    ELSE PrimaryModel

\* every strategy assembles its prompt in shrink mode
ShrinkModeAlways(name) == TRUE

\* the shrink_mode argument each strategy gives to build_user_prompt
\* (strategies.py:137-139, 229-231, 349-351)
ShrinkMode(name) == name = "shrink"

\* strategies.py:313-321: no fallback model, so the last error is raised again
NoFallbackModel(name) == name = "fallback" /\ Len(settings.FALLBACK_MODELS) = 0

\* what client.generate can yield in this strategy; None when it is not called
LlmCalls(name) == IF NoFallbackModel(name) THEN {None} ELSE llm_outputs

ExecuteOutcomes(name, request, error, g) ==
    IF NoFallbackModel(name)
    THEN {IF error # NoException THEN error ELSE Raise("ValueError", [message |-> "No fallback models configured"])}
    ELSE GenerateAndValidate(g, request)

\* config.py:45
RETRY_BACKOFF_BASE == 2

\* a sleep before every attempt that follows an error, the first of a state too
BackoffSecondsOnError(name, attempt, error) ==
    IF ~NoFallbackModel(name) /\ error # NoException THEN RETRY_BACKOFF_BASE ^ attempt ELSE 0

\* "if attempt > 1 and error: await asyncio.sleep(self.backoff_base ** attempt)",
\* the same in the three strategies; 0 is no sleep.  The fallback strategy
\* raises before it when it has no model.
BackoffSeconds(name, attempt, error) ==
    IF ~NoFallbackModel(name) /\ attempt > 1 /\ error # NoException
    THEN RETRY_BACKOFF_BASE ^ attempt
    ELSE 0

\* "except Exception" in place of "except ValidationError"
IsAnyException(e) == ~e.ok

\* except ValidationError (engine.py:214)
IsValidationError(e) == e.type \in ValidationErrorTypes

(***************************************************************************)
(* RetryMetadata and its __post_init__.                                    *)
(***************************************************************************)
RetryMetadata(r, final_strategy) ==
    [total_attempts |-> r.total_attempts,
     strategies_used |-> r.strategies_used,
     final_strategy |-> final_strategy,
     llm_metadata |-> [attempt_number |-> r.total_attempts],
     validation_failures |-> r.validation_failures]

PostInit(m) ==
    IF m.total_attempts < 1 THEN Raise("ValueError", [message |-> "total_attempts"])
    ELSE IF Len(m.strategies_used) = 0 THEN Raise("ValueError", [message |-> "strategies_used"])
    ELSE IF \A i \in DOMAIN m.strategies_used : m.strategies_used[i] # m.final_strategy
    THEN Raise("ValueError", [message |-> "final_strategy"])
    ELSE Ok(m)

(***************************************************************************)
(* RetryEngine.execute_with_retry, one step per loop iteration.            *)
(***************************************************************************)
\* one attempt more than max_attempts in every strategy
BudgetOneMore(r) == IF r.strategy = 0 THEN 0 ELSE Strategies(settings)[r.strategy].max_attempts + 1

Budget(r) == IF r.strategy = 0 THEN 0 ELSE Strategies(settings)[r.strategy].max_attempts

\* engine.py:132-136: a caller enters execute_with_retry
Call(c) ==
    /\ c \in clients
    /\ run[c].status # "running"
    /\ calls[c] < MaxCalls
    /\ calls' = [calls EXCEPT ![c] = @ + 1]
    /\ run' = [run EXCEPT ![c] = FreshRun]
    /\ UNCHANGED << edge_vars, prompt_vars, repo_vars, settings, validation_pipeline, llm_outputs, clients, engine,
                    current_model_index, task, redis >>

\* engine.py:148-150: the outer loop takes the next strategy
NextStrategy(c) ==
    LET r == run[c]
        name == StrategyNames[r.strategy + 1]
    IN
    /\ r.status = "running"
    /\ r.attempt >= Budget(r)
    /\ r.strategy < Len(StrategyNames)
    /\ run' = [run EXCEPT ![c] =
                 [r EXCEPT !.strategy = @ + 1,
                           !.attempt = 0,
                           !.strategies_used =
                               IF \E i \in DOMAIN @ : @[i] = name THEN @ ELSE Append(@, name)]]
    /\ UNCHANGED << edge_vars, prompt_vars, repo_vars, settings, validation_pipeline, llm_outputs, clients, engine,
                    current_model_index, calls, task, redis >>

\* engine.py:176-212: the attempt passed, package and return
OnSuccess(r, outcome) ==
    LET m == PostInit(RetryMetadata(r, StrategyNames[r.strategy])) IN
    IF m.ok
    THEN [r EXCEPT !.status = "returned",
                   !.result = [kind |-> "success",
                               response |-> outcome.value.response,
                               retry_metadata |-> m.value,
                               warnings |-> outcome.value.warnings]]
    ELSE [r EXCEPT !.status = "raised", !.result = [kind |-> "exception", exception |-> m]]

\* a break after the first failure of each strategy
OnValidationErrorBreak(r, e) ==
    [r EXCEPT !.last_error = e,
              !.validation_failures = Append(@, e.details),
              !.attempt = Budget(r)]

\* the failure is not recorded in validation_failures
OnValidationErrorUnrecorded(r, e) ==
    [r EXCEPT !.last_error = e,
              !.attempt = IF r.attempt < Budget(r) THEN @ ELSE Budget(r)]

\* the first error is kept as last_error
OnValidationErrorKeepFirst(r, e) ==
    [r EXCEPT !.last_error = IF @ = NoException THEN e ELSE @,
              !.validation_failures = Append(@, e.details),
              !.attempt = IF r.attempt < Budget(r) THEN @ ELSE Budget(r)]

\* engine.py:214-247: record the failure; the inner loop continues or breaks
OnValidationError(r, e) ==
    [r EXCEPT !.last_error = e,
              !.validation_failures = Append(@, e.details),
              !.attempt = IF r.attempt < Budget(r) THEN @ ELSE Budget(r)]

\* any other exception leaves execute_with_retry
OnOtherException(r, e) ==
    [r EXCEPT !.status = "raised", !.result = [kind |-> "exception", exception |-> e]]

\* engine.py:162-247: one iteration of the inner loop
Attempt(c) ==
    LET r == run[c]
        name == StrategyNames[r.strategy]
        idx == current_model_index[engine[c]]
        counted == [r EXCEPT !.total_attempts = @ + 1, !.attempt = @ + 1]
    IN
    /\ r.status = "running"
    /\ r.strategy >= 1
    /\ r.attempt < Budget(r)
    /\ \E g \in LlmCalls(name) : \E outcome \in ExecuteOutcomes(name, Request(c), r.last_error, g) :
         LET seen == [counted EXCEPT !.llm_response = IF g \in Contents THEN g ELSE None,
                                     !.executed =
                         Append(@, [strategy |-> name,
                                    attempt |-> counted.attempt,
                                    model |-> IF NoFallbackModel(name) THEN None
                                              ELSE SelectModel(name, idx),
                                    shrink_mode |-> ShrinkMode(name),
                                    backoff_seconds |->
                                        BackoffSeconds(name, counted.attempt, r.last_error),
                                    outcome |-> outcome])]
         IN run' = [run EXCEPT ![c] =
                      IF outcome.ok THEN OnSuccess(seen, outcome)
                      ELSE IF IsValidationError(outcome) THEN OnValidationError(seen, outcome)
                      ELSE OnOtherException(seen, outcome)]
    /\ current_model_index' =
         IF name = "fallback" /\ ~NoFallbackModel(name)
         THEN [current_model_index EXCEPT ![engine[c]] = @ + 1]
         ELSE current_model_index
    /\ UNCHANGED << edge_vars, prompt_vars, repo_vars, settings, validation_pipeline, llm_outputs, clients, engine,
                    calls, task, redis >>

\* engine.py:249-290: the ladder is used up
RaiseRetryExhausted(c) ==
    LET r == run[c]
        final == IF Len(r.strategies_used) > 0 THEN r.strategies_used[Len(r.strategies_used)] ELSE "none"
        m == PostInit(RetryMetadata(r, final))
    IN
    /\ r.status = "running"
    /\ r.strategy = Len(StrategyNames)
    /\ r.attempt >= Budget(r)
    /\ run' = [run EXCEPT ![c] =
                 IF m.ok
                 THEN [r EXCEPT !.status = "exhausted",
                                !.result = [kind |-> "RetryExhausted",
                                            request |-> Request(c),
                                            retry_metadata |-> m.value,
                                            last_error |-> IF r.last_error # NoException
                                                           THEN r.last_error
                                                           ELSE Raise("ValidationError", [message |-> "Unknown error"])]]
                 ELSE [r EXCEPT !.status = "raised", !.result = [kind |-> "exception", exception |-> m]]]
    /\ UNCHANGED << edge_vars, prompt_vars, repo_vars, settings, validation_pipeline, llm_outputs, clients, engine,
                    current_model_index, calls, task, redis >>

(***************************************************************************)
(* One caller at a time on one engine instance.                            *)
(***************************************************************************)
\* a job: pc is where it stands, retries is self.request.retries, runs counts
\* the executions of the task body
IdleTask == [pc |-> "idle", retries |-> 0, runs |-> 0, returned |-> NoResult]

\* a result that reports the attempts instead of the retries
BuildResultAttempts(request, retry_metadata) ==
    [kind |-> "TriageResult",
     request_uid |-> request.email.uid,
     retries_used |-> retry_metadata.total_attempts]

\* triage_tasks.py:155-165: the TriageResult the job builds from what
\* execute_with_retry returned
BuildResult(request, retry_metadata) ==
    [kind |-> "TriageResult",
     request_uid |-> request.email.uid,
     retries_used |-> retry_metadata.total_attempts - 1]

\* triage:dlq is `new` (the entries pushed so far, newest first) followed by
\* `prior` older entries
EmptyRedis == [dlq |-> [prior |-> 0, new |-> << >>], results |-> {}]

InitEngine ==
    /\ settings \in SettingsSpace
    /\ validation_pipeline \in Validators
    /\ engine = [c \in Callers |-> "c1"]
    /\ current_model_index = [c \in Callers |-> 0]
    /\ calls = [c \in Callers |-> 0]
    /\ run = [c \in Callers |-> IdleRun]
    /\ task = [c \in Callers |-> IdleTask]
    /\ redis = EmptyRedis
    /\ redis_keys = EmptyKeys
    /\ repository = IdleRepository
    /\ prompt = NoPrompt
    /\ api = IdleApi
    /\ http = IdleHttp

Init ==
    /\ InitEngine
    /\ llm_outputs = Contents \cup GatewayErrors
    /\ clients = {"c1"}

Next == \E c \in Callers : Call(c) \/ NextStrategy(c) \/ Attempt(c) \/ RaiseRetryExhausted(c)

Spec == Init /\ [][Next]_vars

(***************************************************************************)
(* Properties of execute_with_retry.                                       *)
(***************************************************************************)
IsPrefix(s, t) == Len(s) <= Len(t) /\ \A i \in DOMAIN s : s[i] = t[i]

Finished(c) == run[c].status \in {"returned", "exhausted"}

\* the strategy.execute calls of caller c's run that went to strategy `name`
ExecutedIn(c, name) == {i \in DOMAIN run[c].executed : run[c].executed[i].strategy = name}

StrategyIndex(name) == CHOOSE k \in DOMAIN StrategyNames : StrategyNames[k] = name

\* C1: every RetryMetadata produced (on success or carried by RetryExhausted)
\* has strategies_used a prefix of [standard, shrink, fallback] and
\* total_attempts >= len(strategies_used), whatever MAX_RETRIES and the
\* fallback list are.
C1_PrefixAndAttempts ==
    \A c \in Callers :
        Finished(c) =>
            LET m == run[c].result.retry_metadata IN
            /\ IsPrefix(m.strategies_used, StrategyNames)
            /\ m.total_attempts >= Len(m.strategies_used)

\* a strategy is listed in the metadata though no attempt was made with it
C1_ListedButNotAttempted ==
    \E c \in Callers :
        /\ Finished(c)
        /\ \E i \in DOMAIN run[c].result.retry_metadata.strategies_used :
              ExecutedIn(c, run[c].result.retry_metadata.strategies_used[i]) = {}

C4_SuccessAccounting ==
    \A c \in Callers :
        run[c].status = "returned" =>
            LET m == run[c].result.retry_metadata
                ex == run[c].executed
                n == Len(ex)
                k == StrategyIndex(ex[n].strategy)
                j == Cardinality(ExecutedIn(c, ex[n].strategy))
                budget(i) == Strategies(settings)[i].max_attempts
                sum[i \in 0..(k-1)] == IF i = 0 THEN 0 ELSE sum[i-1] + budget(i)
            IN
            /\ ex[n].outcome.ok
            /\ \A i \in 1..(n-1) : IsValidationError(ex[i].outcome)
            /\ m.strategies_used = SubSeq(StrategyNames, 1, k)
            /\ m.final_strategy = StrategyNames[k]
            /\ m.total_attempts = sum[k-1] + j
            /\ \A i \in 1..(k-1) : Cardinality(ExecutedIn(c, StrategyNames[i])) = budget(i)
            /\ \A a, b \in DOMAIN ex :
                  a < b => StrategyIndex(ex[a].strategy) <= StrategyIndex(ex[b].strategy)

\* a success on the first fallback attempt, after the earlier budgets failed
C4_Witness ==
    \E c \in Callers :
        /\ run[c].status = "returned"
        /\ settings.MAX_RETRIES = 2
        /\ run[c].result.retry_metadata.final_strategy = "fallback"
        /\ run[c].result.retry_metadata.total_attempts = 5

\* the rules of stages 1-3 as the interface description states them: the
\* content is a JSON object with the required properties and no other, its
\* dictionaryversion is the request's, every labelid is a topic of the enum and
\* every candidateid is one of the request's candidates
MeetsStages1To3(content, request) ==
    LET p == ParsedJson(content) IN
    /\ p.kind = "dict"
    /\ DOMAIN p.obj = SchemaRequired
    /\ p.obj.dictionaryversion = request.dictionary_version
    /\ \A i \in DOMAIN p.obj.topics :
          /\ p.obj.topics[i].labelid \in TopicsEnum
          /\ \A k \in DOMAIN p.obj.topics[i].keywordsintext :
                \E h \in DOMAIN request.candidate_keywords :
                    request.candidate_keywords[h].candidate_id = p.obj.topics[i].keywordsintext[k].candidateid

\* C6: an LLM response that passes stages 1 to 3 is returned by
\* ValidationPipeline.validate with its warnings and the engine returns success
\* on that attempt; nothing stage 4 or a verifier does makes the attempt a
\* validation failure.
C6_PassingResponseSucceeds ==
    \A c \in Callers :
        (/\ validation_pipeline = "ValidationPipeline"
         /\ run[c].llm_response \in Contents
         /\ MeetsStages1To3(run[c].llm_response, Request(c)))
        => /\ WrapUnexpected(Stage4AndVerifiers(ParsedJson(run[c].llm_response).obj, Request(c))).ok
           /\ run[c].status = "returned"
           /\ run[c].result.response = ParsedJson(run[c].llm_response).obj
           /\ run[c].executed[Len(run[c].executed)].outcome.ok

(***************************************************************************)
(* Two callers in flight on one RetryEngine instance: the coroutines       *)
(* interleave at the awaits inside strategy.execute.                       *)
(***************************************************************************)
InitShared ==
    /\ InitEngine
    /\ llm_outputs = {"missing", "LLMConnectionError"}
    /\ clients = Callers

SpecShared == InitShared /\ [][Next]_vars

\* the fallback models caller c's run has asked the gateway for, in order
FallbackModelsTried(c) ==
    LET ex == run[c].executed
        at == ExecutedIn(c, "fallback")
        nth[i \in 0..Len(ex)] ==
            IF i = 0 THEN << >>
            ELSE IF i \in at THEN Append(nth[i-1], ex[i].model) ELSE nth[i-1]
    IN nth[Len(ex)]

\* C10: with requests running concurrently on one engine instance, a request
\* that has used the fallback budget of n = |fallbackModels| attempts has tried
\* every configured fallback model exactly once.
C10_EachFallbackModelOnce ==
    \A c \in Callers :
        LET n == Len(settings.FALLBACK_MODELS)
            tried == FallbackModelsTried(c)
        IN (n >= 1 /\ Len(tried) = n) =>
              \A m \in DOMAIN settings.FALLBACK_MODELS :
                  Cardinality({i \in DOMAIN tried : tried[i] = settings.FALLBACK_MODELS[m]}) = 1

\* two requests are in the fallback state of the same instance at once
C10_Witness ==
    /\ Len(settings.FALLBACK_MODELS) = 2
    /\ \A c \in Callers : run[c].status = "running" /\ run[c].strategy = 3 /\ run[c].attempt = 1

(***************************************************************************)
(* The Celery job (tasks/triage_tasks.py) and the dead letter queue        *)
(* (persistence/repository.py).  Each worker process has its own           *)
(* TriageTask, hence its own RetryEngine.  The locals of                   *)
(* execute_with_retry are gone once the body has handled its outcome.      *)
(***************************************************************************)
RedisOutcomes == {"ok", "ConnectionError"}

DlqLength == Len(redis.dlq.new) + redis.dlq.prior

\* repository.py:220-231
DlqEntry(exc) ==
    [request_uid |-> exc.request.email.uid,
     total_attempts |-> exc.retry_metadata.total_attempts,
     strategies_used |-> exc.retry_metadata.strategies_used,
     last_error_type |-> exc.last_error.type]

\* LPUSH key value
LPush(list, value) == [list EXCEPT !.new = << value >> \o @]

\* LTRIM key 0 stop
LTrim(list, stop) ==
    IF Len(list.new) >= stop + 1
    THEN [prior |-> 0, new |-> SubSeq(list.new, 1, stop + 1)]
    ELSE [list EXCEPT !.prior = Min(@, stop + 1 - Len(list.new))]

\* Task.retry, reached through autoretry_for=(Exception,) or self.retry: the
\* job is queued again until max_retries is used up, then it fails
Retry(t) ==
    IF t.retries < TaskMaxRetries
    THEN [t EXCEPT !.pc = "queued", !.retries = @ + 1]
    ELSE [t EXCEPT !.pc = "FAILURE"]

\* triage_tasks.py:125-141: the body starts and enters execute_with_retry
TaskStart(w) ==
    /\ w \in clients
    /\ task[w].pc = "queued"
    /\ task' = [task EXCEPT ![w] = [@ EXCEPT !.pc = "running", !.runs = @ + 1]]
    /\ run' = [run EXCEPT ![w] = FreshRun]
    /\ calls' = [calls EXCEPT ![w] = @ + 1]
    /\ UNCHANGED << edge_vars, prompt_vars, repo_vars, settings, validation_pipeline, llm_outputs, clients, engine,
                    current_model_index, redis >>

\* triage_tasks.py:143-181: the result is saved (best effort) and returned
TaskReturn(w) ==
    /\ task[w].pc = "running"
    /\ run[w].status = "returned"
    /\ \E o \in RedisOutcomes :
         redis' = IF o = "ok"
                  THEN [redis EXCEPT !.results = @ \cup {[request_uid |-> Request(w).email.uid, task_id |-> w]}]
                  ELSE redis
    /\ task' = [task EXCEPT ![w] = [@ EXCEPT !.pc = "SUCCESS",
                                            !.returned = BuildResult(Request(w), run[w].result.retry_metadata)]]
    /\ run' = [run EXCEPT ![w] = IdleRun]
    /\ UNCHANGED << edge_vars, prompt_vars, repo_vars, settings, validation_pipeline, llm_outputs, clients, engine,
                    current_model_index, calls >>

\* triage_tasks.py:201-213: any other exception, raise self.retry(exc, countdown=60)
TaskExcept(w) ==
    /\ task[w].pc = "running"
    /\ run[w].status = "raised"
    /\ task' = [task EXCEPT ![w] = Retry(@)]
    /\ run' = [run EXCEPT ![w] = IdleRun]
    /\ UNCHANGED << edge_vars, prompt_vars, repo_vars, settings, validation_pipeline, llm_outputs, clients, engine,
                    current_model_index, calls, redis >>

\* triage_tasks.py:183-185 and repository.py:216-236: save_to_dlq up to its
\* LPUSH; when Redis fails save_to_dlq returns False and the body re-raises
SaveToDlqPush(w) ==
    /\ task[w].pc = "running"
    /\ run[w].status = "exhausted"
    /\ \E o \in RedisOutcomes :
         IF o = "ok"
         THEN /\ redis' = [redis EXCEPT !.dlq = LPush(@, DlqEntry(run[w].result))]
              /\ task' = [task EXCEPT ![w] = [@ EXCEPT !.pc = "lpushed"]]
              /\ run' = run
         ELSE /\ redis' = redis
              /\ task' = [task EXCEPT ![w] = Retry(@)]
              /\ run' = [run EXCEPT ![w] = IdleRun]
    /\ UNCHANGED << edge_vars, prompt_vars, repo_vars, settings, validation_pipeline, llm_outputs, clients, engine,
                    current_model_index, calls >>

\* repository.py:239 and triage_tasks.py:199: the LTRIM, then the body
\* re-raises RetryExhausted, which autoretry_for=(Exception,) catches
SaveToDlqTrim(w) ==
    /\ task[w].pc = "lpushed"
    /\ \E o \in RedisOutcomes :
         redis' = IF o = "ok" THEN [redis EXCEPT !.dlq = LTrim(@, DlqTrimStop)] ELSE redis
    /\ task' = [task EXCEPT ![w] = Retry(@)]
    /\ run' = [run EXCEPT ![w] = IdleRun]
    /\ UNCHANGED << edge_vars, prompt_vars, repo_vars, settings, validation_pipeline, llm_outputs, clients, engine,
                    current_model_index, calls >>

\* the settings the jobs run under: the shipped FALLBACK_MODELS (config.py:32)
TaskSettingsSpace ==
    {s \in SettingsSpace : s.MAX_RETRIES = MaxRetriesBound /\ s.FALLBACK_MODELS = << >>}

\* the lengths triage:dlq can have when the jobs are submitted
DlqBacklogs == {0, DlqTrimStop + 1}

InitTask ==
    /\ settings \in TaskSettingsSpace
    /\ validation_pipeline \in Validators
    /\ llm_outputs = {"missing", "LLMConnectionError"}
    /\ clients = Callers
    /\ engine = [c \in Callers |-> c]
    /\ current_model_index = [c \in Callers |-> 0]
    /\ calls = [c \in Callers |-> 0]
    /\ run = [c \in Callers |-> IdleRun]
    /\ task = [c \in Callers |-> [IdleTask EXCEPT !.pc = "queued"]]
    /\ \E backlog \in DlqBacklogs : redis = [EmptyRedis EXCEPT !.dlq.prior = backlog]
    /\ redis_keys = EmptyKeys
    /\ repository = IdleRepository
    /\ prompt = NoPrompt
    /\ api = IdleApi
    /\ http = IdleHttp

NextTask ==
    \E w \in Callers :
        \/ TaskStart(w)
        \/ NextStrategy(w) \/ Attempt(w) \/ RaiseRetryExhausted(w)
        \/ TaskReturn(w) \/ TaskExcept(w) \/ SaveToDlqPush(w) \/ SaveToDlqTrim(w)

SpecTask == InitTask /\ [][NextTask]_vars

(***************************************************************************)
(* Properties of the job and of the dead letter queue.                     *)
(***************************************************************************)
\* the entries of triage:dlq pushed for worker w's job
DlqEntriesOf(w) ==
    {i \in DOMAIN redis.dlq.new : redis.dlq.new[i].request_uid = Request(w).email.uid}

\* C7: a job whose request exhausts the ladder gets exactly one DLQ entry over
\* its whole lifetime, queue-level retries included; the entry carries the
\* email uid and the RetryMetadata's total_attempts.
C7_ExactlyOneDlqEntry ==
    \A w \in Callers :
        /\ Cardinality(DlqEntriesOf(w)) <= 1
        /\ task[w].pc = "lpushed" =>
              /\ Cardinality(DlqEntriesOf(w)) = 1
              /\ \A i \in DlqEntriesOf(w) :
                    redis.dlq.new[i].total_attempts = run[w].result.retry_metadata.total_attempts

\* C8: once the engine has raised RetryExhausted for a job the job fails for
\* good: it is never queued again, so the body (and the engine) never re-runs.
C8_NoRerunAfterExhausted ==
    [][\A w \in Callers :
          (run[w].status = "exhausted" /\ task'[w].pc # task[w].pc)
              => task'[w].pc \in {"lpushed", "FAILURE"}
      ]_vars

\* C9: triage:dlq never holds more than 10,000 entries, the states between an
\* LPUSH and its LTRIM included.
C9_DlqAtMostTenThousand == DlqLength <= DlqTrimStop + 1

(***************************************************************************)
(* Properties of the fallback strategy.                                    *)
(***************************************************************************)
\* C11: a ModelNotAvailable from the gateway for the selected fallback model
\* only skips that model: while another fallback attempt is left in the budget
\* the request does not fail because of it.
C11_UnavailableFallbackSkipped ==
    \A c \in Callers :
        \A i \in DOMAIN run[c].executed :
            LET x == run[c].executed[i] IN
            (/\ x.strategy = "fallback"
             /\ ~x.outcome.ok
             /\ x.outcome.type = "LLMModelNotAvailableError"
             /\ x.attempt < Len(settings.FALLBACK_MODELS))
            => run[c].status # "raised"

\* C12: with n >= 1 fallback models the k-th invocation of the fallback
\* strategy on an engine instance asks for fallbackModels[(k-1) mod n], a model
\* of the configured list and never the primary one; the cursor is 0 at
\* construction and counts the invocations, one step each.
C12_RoundRobin ==
    [][\A c \in Callers :
        LET ex == run'[c].executed
            n == Len(settings.FALLBACK_MODELS)
            k == current_model_index'[engine[c]]
            invoked == /\ Len(ex) = Len(run[c].executed) + 1
                       /\ ex[Len(ex)].strategy = "fallback"
                       /\ n >= 1
        IN
        /\ invoked =>
              /\ k = current_model_index[engine[c]] + 1
              /\ ex[Len(ex)].model = settings.FALLBACK_MODELS[((k - 1) % n) + 1]
              /\ ex[Len(ex)].model # PrimaryModel
        /\ (run'[c] # run[c] /\ ~invoked) => current_model_index' = current_model_index
      ]_vars

\* the third invocation on one instance, in a second request, is back at the
\* first of two models
C12_Witness ==
    \E c \in Callers :
        /\ Len(settings.FALLBACK_MODELS) = 2
        /\ calls[c] = 2
        /\ current_model_index[engine[c]] = 3
        /\ Cardinality(ExecutedIn(c, "fallback")) = 1
        /\ \A i \in ExecutedIn(c, "fallback") : run[c].executed[i].model = "fb1"

\* C13: a backoff sleep precedes an attempt exactly when the attempt is not
\* the first one within its state, and lasts RETRY_BACKOFF_BASE^attempt
\* seconds (4 before the 2nd attempt, 8 before the 3rd); the first attempt of
\* each state is made without a sleep.
C13_BackoffExactlyAfterFirst ==
    \A c \in Callers :
        \A i \in DOMAIN run[c].executed :
            LET x == run[c].executed[i] IN
            /\ x.attempt = 1 => x.backoff_seconds = 0
            /\ x.attempt > 1 =>
                  /\ x.backoff_seconds > 0
                  /\ x.backoff_seconds = RETRY_BACKOFF_BASE ^ x.attempt
                  /\ x.attempt = 2 => x.backoff_seconds = 4
                  /\ x.attempt = 3 => x.backoff_seconds = 8

\* a run that slept 4 s before its second shrink attempt, and did not sleep
\* before the first one although an error of the standard state was at hand
C13_Witness ==
    \E c \in Callers :
        \E i, j \in DOMAIN run[c].executed :
            /\ i < j
            /\ run[c].executed[i].strategy = "standard"
            /\ run[c].executed[j].strategy = "shrink"
            /\ run[c].executed[j].attempt = 1
            /\ run[c].executed[j].backoff_seconds = 0
            /\ j + 1 \in DOMAIN run[c].executed
            /\ run[c].executed[j + 1].strategy = "shrink"
            /\ run[c].executed[j + 1].attempt = 2
            /\ run[c].executed[j + 1].backoff_seconds = 4

(***************************************************************************)
(* TriageRepository.save_result, get_result and delete_result              *)
(* (persistence/repository.py) over Redis string keys with a TTL.          *)
(* Python values carry their type, because JSON does not: a tuple and a    *)
(* list are both arrays, an int and a float both numbers, None is null.    *)
(***************************************************************************)
MaxTtl == 2
MaxClock == 2

PyNone == [py |-> "NoneType"]
PyStr(v) == [py |-> "str", v |-> v]
PyInt(v) == [py |-> "int", v |-> v]
PyFloat(v) == [py |-> "float", v |-> v]
PyBool(v) == [py |-> "bool", v |-> v]
PyEnum(cls, v) == [py |-> "enum", cls |-> cls, v |-> v]
PyList(items) == [py |-> "list", items |-> items]
PyTuple(items) == [py |-> "tuple", items |-> items]
PyModel(cls, fields) == [py |-> "model", cls |-> cls, fields |-> fields]

JsonNull == [js |-> "null"]
JsonString(v) == [js |-> "string", v |-> v]
JsonNumber(v) == [js |-> "number", v |-> v]
JsonArray(items) == [js |-> "array", items |-> items]
JsonObject(fields) == [js |-> "object", fields |-> fields]

\* BaseModel.model_dump_json
RECURSIVE ModelDumpJson(_)
ModelDumpJson(x) ==
    CASE x.py = "NoneType" -> JsonNull
      [] x.py \in {"str", "enum"} -> JsonString(x.v)
      [] x.py \in {"int", "float"} -> JsonNumber(x.v)
      [] x.py \in {"list", "tuple"} ->
            JsonArray([i \in DOMAIN x.items |-> ModelDumpJson(x.items[i])])
      [] x.py = "model" ->
            JsonObject([f \in DOMAIN x.fields |-> ModelDumpJson(x.fields[f])])

\* the annotations of the models
TStr == [t |-> "str"]
TInt == [t |-> "int"]
TFloat == [t |-> "float"]
TOptional(of) == [t |-> "optional", of |-> of]
TList(of) == [t |-> "list", of |-> of]
TTuple(of) == [t |-> "tuple", of |-> of]
TEnum(cls, members) == [t |-> "enum", cls |-> cls, members |-> members]
TModel(cls, fields) == [t |-> "model", cls |-> cls, fields |-> fields]

\* models/output_models.py:16-35
KeywordInTextType ==
    TModel("KeywordInText",
           [candidateid |-> TStr, lemma |-> TStr, count |-> TInt,
            spans |-> TOptional(TList(TTuple(<< TInt, TInt >>)))])

\* models/output_models.py:38-55
EvidenceItemType ==
    TModel("EvidenceItem", [quote |-> TStr, span |-> TOptional(TTuple(<< TInt, TInt >>))])

\* models/output_models.py:58-80
TopicResultType ==
    TModel("TopicResult",
           [labelid |-> TEnum("TopicsEnum", TopicsEnum), confidence |-> TFloat,
            keywordsintext |-> TList(KeywordInTextType),
            evidence |-> TList(EvidenceItemType)])

\* models/output_models.py:83-107
SentimentResultType ==
    TModel("SentimentResult",
           [value |-> TEnum("SentimentEnum", SentimentEnum), confidence |-> TFloat])

PriorityResultType ==
    TModel("PriorityResult",
           [value |-> TEnum("PriorityEnum", PriorityEnum), confidence |-> TFloat,
            signals |-> TList(TStr)])

\* models/output_models.py:110-132
EmailTriageResponseType ==
    TModel("EmailTriageResponse",
           [dictionaryversion |-> TInt, sentiment |-> SentimentResultType,
            priority |-> PriorityResultType, topics |-> TList(TopicResultType)])

\* models/pipeline_version.py:13-45
PipelineVersionType ==
    TModel("PipelineVersion",
           [dictionary_version |-> TInt, model_version |-> TStr, schema_version |-> TStr,
            inference_layer_version |-> TStr, parser_version |-> TOptional(TStr),
            canonicalization_version |-> TOptional(TStr),
            ner_model_version |-> TOptional(TStr),
            pii_redaction_version |-> TOptional(TStr),
            stoplist_version |-> TOptional(TStr)])

\* models/output_models.py:135-167
TriageResultType ==
    TModel("TriageResult",
           [triage_response |-> EmailTriageResponseType,
            pipeline_version |-> PipelineVersionType,
            request_uid |-> TStr,
            validation_warnings |-> TList(TStr),
            retries_used |-> TInt,
            processing_duration_ms |-> TFloat,
            created_at |-> TOptional(TStr)])

\* whether pydantic accepts JSON value j for annotation t
RECURSIVE Accepts(_, _)
Accepts(t, j) ==
    CASE t.t = "str" -> j.js = "string"
      [] t.t \in {"int", "float"} -> j.js = "number"
      [] t.t = "optional" -> j.js = "null" \/ Accepts(t.of, j)
      [] t.t = "enum" -> j.js = "string" /\ j.v \in t.members
      [] t.t = "list" -> j.js = "array" /\ \A i \in DOMAIN j.items : Accepts(t.of, j.items[i])
      [] t.t = "tuple" ->
            /\ j.js = "array"
            /\ Len(j.items) = Len(t.of)
            /\ \A i \in DOMAIN j.items : Accepts(t.of[i], j.items[i])
      [] t.t = "model" ->
            /\ j.js = "object"
            /\ DOMAIN t.fields \subseteq DOMAIN j.fields
            /\ \A f \in DOMAIN t.fields : Accepts(t.fields[f], j.fields[f])

\* the Python value pydantic builds from an accepted JSON value
RECURSIVE Build(_, _)
Build(t, j) ==
    CASE t.t = "str" -> PyStr(j.v)
      [] t.t = "int" -> PyInt(j.v)
      [] t.t = "float" -> PyFloat(j.v)
      [] t.t = "optional" -> IF j.js = "null" THEN PyNone ELSE Build(t.of, j)
      [] t.t = "enum" -> PyEnum(t.cls, j.v)
      [] t.t = "list" -> PyList([i \in DOMAIN j.items |-> Build(t.of, j.items[i])])
      [] t.t = "tuple" -> PyTuple([i \in DOMAIN j.items |-> Build(t.of[i], j.items[i])])
      [] t.t = "model" -> PyModel(t.cls, [f \in DOMAIN t.fields |-> Build(t.fields[f], j.fields[f])])

\* TriageResult.model_validate_json
ModelValidateJson(j) ==
    IF Accepts(TriageResultType, j)
    THEN Ok(Build(TriageResultType, j))
    ELSE Raise("ValidationError", [error_type |-> "pydantic"])

Uids == {"u1", "u2"}
TaskIds == {"t1"}

\* the spans of the one keyword of the sample: none, or one (start, end) pair
SampleSpans == {PyNone, PyList(<< PyTuple(<< PyInt(0), PyInt(4) >>) >>)}

SampleCreatedAt == {PyNone, PyStr("2024-01-01T12:00:00")}

\* a TriageResult as triage_tasks.py:144-165 builds it
SampleResult(uid, spans, created_at) ==
    PyModel("TriageResult",
      [triage_response |->
          PyModel("EmailTriageResponse",
            [dictionaryversion |-> PyInt(1),
             sentiment |-> PyModel("SentimentResult",
                             [value |-> PyEnum("SentimentEnum", "neutral"),
                              confidence |-> PyFloat(1)]),
             priority |-> PyModel("PriorityResult",
                            [value |-> PyEnum("PriorityEnum", "medium"),
                             confidence |-> PyFloat(1),
                             signals |-> PyList(<< PyStr("signal") >>)]),
             topics |-> PyList(<<
                PyModel("TopicResult",
                  [labelid |-> PyEnum("TopicsEnum", "FATTURAZIONE"),
                   confidence |-> PyFloat(1),
                   keywordsintext |-> PyList(<<
                      PyModel("KeywordInText",
                        [candidateid |-> PyStr("h1"), lemma |-> PyStr("fattura"),
                         count |-> PyInt(1), spans |-> spans]) >>),
                   evidence |-> PyList(<<
                      PyModel("EvidenceItem",
                        [quote |-> PyStr("in body"),
                         span |-> PyTuple(<< PyInt(0), PyInt(4) >>)]) >>)]) >>)]),
       pipeline_version |->
          PyModel("PipelineVersion",
            [dictionary_version |-> PyInt(1), model_version |-> PyStr(PrimaryModel),
             schema_version |-> PyStr("email_triage_v2"),
             inference_layer_version |-> PyStr("0.1.0"),
             parser_version |-> PyStr("1.0.0"),
             canonicalization_version |-> PyStr("1.0.0"),
             ner_model_version |-> PyStr("1.0.0"),
             pii_redaction_version |-> PyStr("1.0.0"),
             stoplist_version |-> PyNone]),
       request_uid |-> PyStr(uid),
       validation_warnings |-> PyList(<< PyStr("warning") >>),
       retries_used |-> PyInt(0),
       processing_duration_ms |-> PyFloat(100),
       created_at |-> created_at])

\* with spans and timestamp for every uid, and without both for the first
SampleResults ==
    {SampleResult("u1", PyNone, PyNone)}
        \cup {SampleResult(u, sp, at) : u \in Uids, sp \in SampleSpans \ {PyNone},
                                        at \in SampleCreatedAt \ {PyNone}}

RESULT_PREFIX == "triage:result:"
TASK_PREFIX == "triage:task:"

\* one key for all results
ResultKeyShared(request_uid) == << RESULT_PREFIX >>

\* f"{self.RESULT_PREFIX}{request_uid}"
ResultKey(request_uid) == << RESULT_PREFIX, request_uid >>

TaskKey(task_id) == << TASK_PREFIX, task_id >>

\* the string keys that have not expired
Live(keys, now) == {k \in keys : now < k.expire_at}

\* SETEX name time value
SetEx(keys, name, time, value, now) ==
    {k \in keys : k.name # name} \cup {[name |-> name, value |-> value, expire_at |-> now + time]}

\* GET name: the value, or None when there is no such key or it has expired
Get(keys, name, now) ==
    IF \E k \in Live(keys, now) : k.name = name
    THEN Ok((CHOOSE k \in Live(keys, now) : k.name = name).value)
    ELSE Ok(PyNone)

\* DEL name: the number of keys removed
Del(keys, name, now) == Cardinality({k \in Live(keys, now) : k.name = name})

\* where a Redis command of a call can fail; "none" is no failure
SaveFaults(result, task_id) ==
    {"none", "setex"}
        \cup (IF result.fields.created_at # PyNone THEN {"zadd"} ELSE {})
        \cup (IF task_id # PyNone THEN {"task setex"} ELSE {})

\* what the caller of the repository knows: the saves that returned True and
\* were not followed by another save or a delete of the same uid
Supersede(saved, uid) == {e \in saved : e.request_uid # uid}

\* repository.py:54-111, for the given results and job ids; journal says
\* whether the callers note what they saved under each job id
SaveResultOf(results, task_ids, journal) ==
    \E result \in results, task_id \in {PyNone} \cup {PyStr(t) : t \in task_ids} :
    \E fault \in SaveFaults(result, task_id) :
        LET uid == result.fields.request_uid.v
            now == repository.now
            ttl == settings.RESULT_TTL_SECONDS
            result_json == ModelDumpJson(result)
            s1 == IF fault = "setex" THEN redis_keys.strings
                  ELSE SetEx(redis_keys.strings, ResultKey(uid), ttl, result_json, now)
            z1 == IF fault \in {"setex", "zadd"} \/ result.fields.created_at = PyNone
                  THEN redis_keys.zset
                  ELSE redis_keys.zset \cup {uid}
            s2 == IF fault # "none" \/ task_id = PyNone THEN s1
                  ELSE SetEx(s1, TaskKey(task_id.v), ttl, PyStr(uid), now)
            value == (fault = "none")
        IN
        /\ redis_keys' = [strings |-> s2, zset |-> z1]
        /\ repository' =
             [repository EXCEPT
                !.last_call = [op |-> "save_result", request_uid |-> uid, task_id |-> task_id,
                               value |-> PyBool(value), fault |-> fault],
                !.saved = Supersede(@, uid) \cup
                          (IF value THEN {[request_uid |-> uid, result |-> result, at |-> now]}
                           ELSE {}),
                !.jobs = IF journal /\ value /\ task_id # PyNone
                         THEN {j \in @ : j.task_id # task_id.v}
                                 \cup {[task_id |-> task_id.v, result |-> result]}
                         ELSE @]
        /\ UNCHANGED << retry_vars, prompt_vars, edge_vars >>

SaveResult == SaveResultOf(SampleResults, TaskIds, FALSE)

\* repository.py:113-143
GetResult ==
    \E uid \in Uids, o \in RedisOutcomes :
        LET result_json == IF o = "ok" THEN Get(redis_keys.strings, ResultKey(uid), repository.now)
                           ELSE Raise("ConnectionError", [command |-> "get"])
            parsed == IF ~result_json.ok THEN result_json
                      ELSE IF result_json.value = PyNone THEN Ok(PyNone)
                      ELSE ModelValidateJson(result_json.value)
            value == IF parsed.ok THEN parsed.value ELSE PyNone
        IN
        /\ repository' = [repository EXCEPT
                            !.last_call = [op |-> "get_result", request_uid |-> uid,
                                           value |-> value, redis |-> o]]
        /\ UNCHANGED << redis_keys, retry_vars, prompt_vars, edge_vars >>

\* the job ids of two workers that handle the same email
JobIds == {"t1", "t2"}

\* the results two jobs produce for one email: they differ in the spans
JobResults == {r \in SampleResults : r.fields.request_uid.v = "u1"}

\* get_result as called from inside the repository: None when the GET fails
\* or finds nothing or the value does not parse
GetResultValue(request_uid, o) ==
    LET result_json == IF o = "ok" THEN Get(redis_keys.strings, ResultKey(request_uid), repository.now)
                       ELSE Raise("ConnectionError", [command |-> "get"])
        parsed == IF ~result_json.ok THEN result_json
                  ELSE IF result_json.value = PyNone THEN Ok(PyNone)
                  ELSE ModelValidateJson(result_json.value)
    IN IF parsed.ok THEN parsed.value ELSE PyNone

\* repository.py:145-173: the mapping is read, then get_result(request_uid)
GetResultByTaskIdValue(task_id, o1, o2) ==
    LET request_uid == IF o1 = "ok" THEN Get(redis_keys.strings, TaskKey(task_id), repository.now)
                       ELSE Raise("ConnectionError", [command |-> "get"])
    IN IF ~request_uid.ok \/ request_uid.value = PyNone THEN PyNone
       ELSE GetResultValue(request_uid.value.v, o2)

\* what a call of get_result_by_task_id leaves in the repository's journal
LookedUp(task_id, o1, o2) ==
    [repository EXCEPT
        !.last_call = [op |-> "get_result_by_task_id", task_id |-> task_id,
                       value |-> GetResultByTaskIdValue(task_id, o1, o2),
                       redis |-> IF o1 = "ok" /\ o2 = "ok" THEN "ok" ELSE "ConnectionError"]]

GetResultByTaskId ==
    \E task_id \in JobIds, o1 \in RedisOutcomes, o2 \in RedisOutcomes :
        /\ repository' = LookedUp(task_id, o1, o2)
        /\ UNCHANGED << redis_keys, retry_vars, prompt_vars, edge_vars >>

\* fastapi.HTTPException as the client sees it
HttpError(status_code, detail) == [kind |-> "error", status_code |-> status_code, detail |-> detail]

\* what AsyncResult(task_id) reports: the state and info of the job in the
\* Celery result backend, PENDING with no info for a job it does not know
AsyncResults ==
    {[state |-> "PENDING", info |-> PyNone],
     [state |-> "STARTED", info |-> PyNone],
     [state |-> "RETRY", info |-> PyStr("RetryExhausted")],
     [state |-> "FAILURE", info |-> PyStr("RetryExhausted")]}
    \cup {[state |-> "SUCCESS", info |-> r] : r \in JobResults}

\* Python's truth value of AsyncResult.info
Truthy(x) == x # PyNone /\ x # PyStr("")

TaskStatusResponse(task_id, status, result, error) ==
    [kind |-> "TaskStatusResponse", status_code |-> 200, task_id |-> task_id,
     status |-> status, result |-> result, error |-> error]

\* routes_async.py:138-244, the answer and whether the store was asked
GetTaskStatusAnswer(task_id, async_result, o1, o2) ==
    LET state == async_result.state
        info == async_result.info
        result == GetResultByTaskIdValue(task_id, o1, o2)
    IN
    IF state = "PENDING" /\ ~Truthy(info)
    THEN [response |-> HttpError(404, "Task not found"), asked |-> FALSE]
    ELSE IF state = "SUCCESS"
    THEN [response |-> TaskStatusResponse(task_id, "SUCCESS", info, PyNone), asked |-> FALSE]
    ELSE IF state = "PENDING" /\ info = PyNone
    THEN [response |-> IF result # PyNone
                       THEN TaskStatusResponse(task_id, "SUCCESS", result, PyNone)
                       ELSE TaskStatusResponse(task_id, "PENDING", PyNone, PyNone),
          asked |-> TRUE]
    ELSE IF state = "FAILURE"
    THEN [response |-> TaskStatusResponse(task_id, "FAILURE", PyNone,
                                          IF Truthy(info) THEN info ELSE PyStr("Unknown error")),
          asked |-> FALSE]
    ELSE IF state \in {"STARTED", "RETRY"}
    THEN [response |-> TaskStatusResponse(task_id, state, PyNone, PyNone), asked |-> FALSE]
    ELSE [response |-> TaskStatusResponse(task_id, "PENDING", PyNone, PyNone), asked |-> FALSE]

\* routes_async.py:266-337
GetTaskResultAnswer(task_id, async_result, o1, o2) ==
    LET state == async_result.state
        info == async_result.info
        result == GetResultByTaskIdValue(task_id, o1, o2)
    IN
    IF state = "PENDING" /\ ~Truthy(info)
    THEN [response |-> IF result # PyNone
                       THEN [kind |-> "TriageResult", status_code |-> 200, task_id |-> task_id,
                             result |-> result]
                       ELSE HttpError(404, "Task not found"),
          asked |-> TRUE]
    ELSE IF state = "SUCCESS"
    THEN [response |-> [kind |-> "TriageResult", status_code |-> 200, task_id |-> task_id,
                        result |-> info],
          asked |-> FALSE]
    ELSE IF state \in {"PENDING", "STARTED", "RETRY"}
    THEN [response |-> HttpError(202, "Task still processing"), asked |-> FALSE]
    ELSE [response |-> HttpError(500, "Task failed"), asked |-> FALSE]

\* one GET of a route: the answer goes to the client, the store is read only
\* on the paths that call the repository
Route(answer, task_id, o1, o2) ==
    /\ api' = [api EXCEPT !.response = answer.response]
    /\ repository' = IF answer.asked THEN LookedUp(task_id, o1, o2) ELSE repository
    /\ UNCHANGED << redis_keys, retry_vars, prompt_vars, http >>

GetTaskStatusOf(task_id, async_result, o1, o2) ==
    Route(GetTaskStatusAnswer(task_id, async_result, o1, o2), task_id, o1, o2)

GetTaskResultOf(task_id, async_result, o1, o2) ==
    Route(GetTaskResultAnswer(task_id, async_result, o1, o2), task_id, o1, o2)

GetTaskStatus ==
    \E task_id \in JobIds, async_result \in AsyncResults, o1 \in RedisOutcomes, o2 \in RedisOutcomes :
        GetTaskStatusOf(task_id, async_result, o1, o2)

GetTaskResult ==
    \E task_id \in JobIds, async_result \in AsyncResults, o1 \in RedisOutcomes, o2 \in RedisOutcomes :
        GetTaskResultOf(task_id, async_result, o1, o2)

\* repository.py:175-205
DeleteResult ==
    \E uid \in Uids, fault \in {"none", "delete", "zrem"} :
        LET now == repository.now
            deleted == Del(redis_keys.strings, ResultKey(uid), now)
            s1 == IF fault = "delete" THEN redis_keys.strings
                  ELSE {k \in redis_keys.strings : k.name # ResultKey(uid)}
            z1 == IF fault = "none" THEN redis_keys.zset \ {uid} ELSE redis_keys.zset
        IN
        /\ redis_keys' = [strings |-> s1, zset |-> z1]
        /\ repository' =
             [repository EXCEPT
                !.last_call = [op |-> "delete_result", request_uid |-> uid,
                               value |-> PyBool(fault = "none" /\ deleted > 0)],
                !.saved = Supersede(@, uid)]
        /\ UNCHANGED << retry_vars, prompt_vars, edge_vars >>

\* a second passes; Redis drops the keys whose time is up
Tick ==
    /\ repository.now < MaxClock
    /\ repository' = [repository EXCEPT !.now = @ + 1]
    /\ redis_keys' = [redis_keys EXCEPT !.strings = Live(@, repository.now + 1)]
    /\ UNCHANGED << retry_vars, prompt_vars, edge_vars >>

InitRepo ==
    /\ \E ttl \in 1..MaxTtl :
          settings = [MAX_RETRIES |-> 0, FALLBACK_MODELS |-> << >>, RESULT_TTL_SECONDS |-> ttl]
    /\ validation_pipeline = "ValidationPipeline"
    /\ llm_outputs = {}
    /\ clients = {}
    /\ engine = [c \in Callers |-> c]
    /\ current_model_index = [c \in Callers |-> 0]
    /\ calls = [c \in Callers |-> 0]
    /\ run = [c \in Callers |-> IdleRun]
    /\ task = [c \in Callers |-> IdleTask]
    /\ redis = EmptyRedis
    /\ redis_keys = EmptyKeys
    /\ repository = IdleRepository
    /\ prompt = NoPrompt
    /\ api = IdleApi
    /\ http = IdleHttp

NextRepo == SaveResult \/ GetResult \/ DeleteResult \/ Tick

SpecRepo == InitRepo /\ [][NextRepo]_vars

\* two jobs saving and reading through their ids
NextJobs == SaveResultOf(JobResults, JobIds, TRUE) \/ GetResultByTaskId \/ Tick

SpecJobs == InitRepo /\ [][NextJobs]_vars

\* the status and result routes beside one job that saves its result
NextRoutes ==
    \/ SaveResultOf(JobResults, {"t1"}, FALSE)
    \/ GetTaskStatus
    \/ GetTaskResult
    \/ Tick

SpecRoutes == InitRepo /\ [][NextRoutes]_vars

\* the saves the caller may still rely on: returned True, not superseded, and
\* younger than the TTL
Standing(uid) ==
    {e \in repository.saved :
        e.request_uid = uid /\ repository.now < e.at + settings.RESULT_TTL_SECONDS}

C15_RetryExhaustedCarries ==
    \A c \in Callers :
        run[c].status = "exhausted" =>
            LET x == run[c].result
                ex == run[c].executed
                m == x.retry_metadata
            IN
            /\ x.kind = "RetryExhausted"
            /\ x.request = Request(c)
            /\ m.total_attempts = Len(ex)
            /\ Len(m.validation_failures) = Len(ex)
            /\ \A i \in DOMAIN ex : /\ ~ex[i].outcome.ok
                                    /\ m.validation_failures[i] = ex[i].outcome.details
            /\ \A i \in DOMAIN m.strategies_used : m.strategies_used[i] = StrategyNames[i]
            /\ \A i \in DOMAIN ex : StrategyIndex(ex[i].strategy) \in DOMAIN m.strategies_used
            /\ Len(ex) > 0
            /\ x.last_error = ex[Len(ex)].outcome
            /\ IsValidationError(x.last_error)
            /\ x.last_error.details = m.validation_failures[Len(m.validation_failures)]

\* an exhausted run whose last failure differs from its first one
C15_Witness ==
    \E c \in Callers :
        /\ run[c].status = "exhausted"
        /\ run[c].executed[1].outcome.type = "JSONParseError"
        /\ run[c].result.last_error.type = "SchemaValidationError"
        /\ Len(run[c].executed) >= 3

(***************************************************************************)
(* Cancellation of a job.  The worker enforces a deadline                  *)
(* (tasks/celery_app.py: task_soft_time_limit) by raising                  *)
(* SoftTimeLimitExceeded, an Exception, inside the task body, wherever it  *)
(* stands: here inside asyncio.run(execute_with_retry), where a gateway    *)
(* call or a backoff sleep is pending.                                     *)
(***************************************************************************)
\* execute_with_retry does not catch it (engine.py:214 catches ValidationError
\* only; a gateway call wraps it into LLMGenerationError, ollama_client.py:331-341);
\* the body's "except Exception" does: raise self.retry(exc, countdown=60)
SoftTimeLimit(w) ==
    /\ task[w].pc = "running"
    /\ run[w].status = "running"
    /\ task' = [task EXCEPT ![w] = Retry(@)]
    /\ run' = [run EXCEPT ![w] = IdleRun]
    /\ UNCHANGED << edge_vars, prompt_vars, repo_vars, settings, validation_pipeline, llm_outputs, clients, engine,
                    current_model_index, calls, redis >>

\* one job, an empty dead letter queue
InitDeadline ==
    /\ settings \in TaskSettingsSpace
    /\ validation_pipeline \in Validators
    /\ llm_outputs = {"missing", "LLMConnectionError"}
    /\ clients = {"c1"}
    /\ engine = [c \in Callers |-> c]
    /\ current_model_index = [c \in Callers |-> 0]
    /\ calls = [c \in Callers |-> 0]
    /\ run = [c \in Callers |-> IdleRun]
    /\ task = [c \in Callers |-> [IdleTask EXCEPT !.pc = "queued"]]
    /\ redis = EmptyRedis
    /\ redis_keys = EmptyKeys
    /\ repository = IdleRepository
    /\ prompt = NoPrompt
    /\ api = IdleApi
    /\ http = IdleHttp

NextDeadline == NextTask \/ \E w \in Callers : SoftTimeLimit(w)

SpecDeadline == InitDeadline /\ [][NextDeadline]_vars

\* the job leaves execute_with_retry while the ladder is still running
Cancelled(w) ==
    /\ task[w].pc = "running"
    /\ run[w].status = "running"
    /\ run'[w].status = "idle"

\* C17: when a job is cancelled while a gateway call or a backoff sleep is
\* pending, no further attempt is made, nothing is saved and nothing goes to
\* the dead letter queue: the job is not handed back to the queue for a retry.
C17_CancelledJobNotRetried ==
    [][\A w \in Callers : Cancelled(w) => /\ task'[w].pc # "queued"
                                          /\ task'[w].retries = task[w].retries]_vars

(***************************************************************************)
(* Determinism of the requests sent to the gateway.                        *)
(***************************************************************************)
\* the model a newly constructed engine asks at this place of the ladder
FreshEngineModel(name, attempt) ==
    IF NoFallbackModel(name) THEN None ELSE SelectModel(name, attempt - 1)

\* C18: two runs with the same request and configuration issue the same
\* sequence of generate requests, whatever the engine served before: the model
\* asked at each place of the ladder is the one a fresh engine asks there.
C18_SameRequestsEveryRun ==
    \A c \in Callers :
        \A i \in DOMAIN run[c].executed :
            run[c].executed[i].model =
                FreshEngineModel(run[c].executed[i].strategy, run[c].executed[i].attempt)

(***************************************************************************)
(* Prompt assembly: PromptBuilder.build_user_prompt (llm/prompt_builder.py)*)
(* with truncate_at_sentence_boundary and the PII span fixup               *)
(* (llm/text_utils.py) and the redaction (pii/redactor.py).  A text is a   *)
(* sequence of characters.  The limits are the constructor arguments of    *)
(* PromptBuilder, here a few characters and candidates instead of the      *)
(* defaults 8000 / 4000 and 100 / 50.                                      *)
(***************************************************************************)
MaxBodyLen == 7
MaxCandidates == 3
BodyTruncationLimit == 6
ShrinkBodyLimit == 3
CandidateTopN == 2
ShrinkTopN == 1

Punctuation == {".", "!", "?"}
Whitespace == {" ", "\n", "\t"}
Alphabet == {"a", " ", ".", "?"}

SetMax(S) == CHOOSE x \in S : \A y \in S : y <= x
SetMin(S) == CHOOSE x \in S : \A y \in S : x <= y

\* the cut keeps the whitespace that follows the punctuation mark
TruncateKeepingWhitespace(text, max_chars) ==
    IF Len(text) <= max_chars THEN text
    ELSE LET seg == SubSeq(text, 1, max_chars)
             matches == {i \in 1..Len(seg) :
                            /\ seg[i] \in Punctuation
                            /\ (i = Len(seg) \/ seg[i + 1] \in Whitespace)}
         IN IF matches # {}
            THEN SubSeq(text, 1, Min(SetMax(matches) + 1, Len(seg)))
            ELSE seg

\* text_utils.py:13-64
TruncateAtSentenceBoundary(text, max_chars) ==
    IF Len(text) <= max_chars THEN text
    ELSE
        LET truncated_segment == SubSeq(text, 1, max_chars)
            n == Len(truncated_segment)
            \* re.finditer(r'[.!?](?:\s|$)'): where the matches start
            matches == {i \in 1..n :
                           /\ truncated_segment[i] \in Punctuation
                           /\ (i = n \/ truncated_segment[i + 1] \in Whitespace)}
            spaces == {i \in 1..n : truncated_segment[i] = " "}
            \* truncated_segment.rfind(' '), counted from 0
            last_space == IF spaces = {} THEN -1 ELSE SetMax(spaces) - 1
        IN
        IF matches # {}
        THEN LET last_match == SetMax(matches)
                 \* last_match.end(): the characters up to the end of the match
                 end == IF last_match < n THEN last_match + 1 ELSE last_match
                 cutoff == IF truncated_segment[end] \in Whitespace THEN end - 1 ELSE end
             IN SubSeq(text, 1, cutoff)
        ELSE IF 10 * last_space > 8 * max_chars    \* last_space > max_chars * 0.8
        THEN SubSeq(text, 1, last_space)
        ELSE SubSeq(text, 1, max_chars)

\* hasattr(entity, 'span')
HasAttr(obj, name) == name \in DOMAIN obj

\* text_utils.py:67-134: an entity without a span attribute is skipped
RECURSIVE AdjustPiiSpansAfterTruncation(_, _)
AdjustPiiSpansAfterTruncation(pii_entities, truncated_length) ==
    IF pii_entities = << >> THEN << >>
    ELSE LET entity == Head(pii_entities)
             rest == AdjustPiiSpansAfterTruncation(Tail(pii_entities), truncated_length)
         IN IF ~HasAttr(entity, "span") THEN rest
            ELSE IF entity.span[2] <= truncated_length THEN << entity >> \o rest
            ELSE IF entity.span[1] >= truncated_length THEN rest
            ELSE << [entity EXCEPT !.span = << entity.span[1], truncated_length >>] >> \o rest

\* pii/redactor.py:14-118: with entities to redact the sort key reads e.span
RedactPiiForLlm(text, pii_entities, redact_enabled) ==
    IF ~redact_enabled \/ pii_entities = << >> THEN Ok(text)
    ELSE LET spans == [i \in DOMAIN pii_entities |-> GetAttr(pii_entities[i], "span")]
         IN IF \E i \in DOMAIN spans : ~spans[i].ok
            THEN FirstRaise(spans)
            ELSE Ok(<< "[", "R", "]" >> \o SubSeq(text, pii_entities[1].span[2] + 1, Len(text)))

\* pii/redactor.py:121-191
RedactPiiInCandidates(candidates, pii_entities, redact_enabled) ==
    IF ~redact_enabled \/ pii_entities = << >> THEN Ok(candidates)
    ELSE LET spans == [i \in DOMAIN pii_entities |-> GetAttr(pii_entities[i], "span")]
         IN IF \E i \in DOMAIN spans : ~spans[i].ok THEN FirstRaise(spans) ELSE Ok(candidates)

\* prompt_builder.py:150-152
BodyLimit(builder, shrink_mode) ==
    IF shrink_mode THEN builder.shrink_body_limit ELSE builder.body_truncation_limit

TopN(builder, shrink_mode) ==
    IF shrink_mode THEN builder.shrink_top_n ELSE builder.candidate_top_n

\* prompt_builder.py:125-240: the body and the candidates given to the
\* template, and the metadata
BuildUserPrompt(builder, request, shrink_mode) ==
    LET email == request.email
        body_limit == BodyLimit(builder, shrink_mode)
        top_n == TopN(builder, shrink_mode)
        original_body == email.body_text_canonical
        truncated_body == TruncateAtSentenceBoundary(original_body, body_limit)
        adjusted_pii == AdjustPiiSpansAfterTruncation(email.pii_entities, Len(truncated_body))
        redacted_body == IF builder.redact_for_llm
                         THEN RedactPiiForLlm(truncated_body, adjusted_pii, TRUE)
                         ELSE Ok(truncated_body)
        first_n == SubSeq(request.candidate_keywords, 1, Min(top_n, Len(request.candidate_keywords)))
        candidates == IF builder.redact_for_llm /\ adjusted_pii # << >>
                      THEN RedactPiiInCandidates(first_n, adjusted_pii, TRUE)
                      ELSE Ok(first_n)
    IN
    IF ~redacted_body.ok THEN redacted_body
    ELSE IF ~candidates.ok THEN candidates
    ELSE Ok([body |-> redacted_body.value,
             candidate_keywords |-> candidates.value,
             metadata |-> [truncation_applied |-> Len(truncated_body) < Len(original_body),
                           original_body_length |-> Len(original_body),
                           truncated_body_length |-> Len(truncated_body),
                           final_body_length |-> Len(redacted_body.value),
                           pii_redaction_applied |-> builder.redact_for_llm,
                           pii_entities_count |-> Len(adjusted_pii),
                           candidates_count |-> Len(candidates.value),
                           shrink_mode |-> shrink_mode]])

Bodies == UNION {[1..n -> Alphabet] : n \in 0..MaxBodyLen}

\* models/input_models.py:13-29: one entity on the first character
PiiEntities(body) ==
    IF Len(body) = 0 THEN << >>
    ELSE << [type |-> "NAME", original_hash |-> "hash", redacted |-> body[1],
             span_start |-> 0, span_end |-> 1, detection_method |-> "ner"] >>

CandidateKeywords(n) ==
    [i \in 1..n |-> [candidate_id |-> i, term |-> "term", lemma |-> "lemma", count |-> 1]]

\* what a strategy does before it calls the gateway
ExecutePrompt(name) ==
    /\ prompt' = [prompt EXCEPT !.built =
                    [kind |-> "built", strategy |-> name,
                     prompt |-> BuildUserPrompt(prompt.builder, prompt.request, ShrinkMode(name))]]
    /\ UNCHANGED << retry_vars, repo_vars, edge_vars >>

\* strategies.py:135-139
StandardPrompt == ExecutePrompt("standard")

\* strategies.py:227-231
ShrinkPrompt == ExecutePrompt("shrink")

\* strategies.py:347-351
FallbackPrompt == ExecutePrompt("fallback")

InitPrompt ==
    /\ settings = [MAX_RETRIES |-> 0, FALLBACK_MODELS |-> << "fb1" >>]
    /\ validation_pipeline = "ValidationPipeline"
    /\ llm_outputs = {}
    /\ clients = {}
    /\ engine = [c \in Callers |-> c]
    /\ current_model_index = [c \in Callers |-> 0]
    /\ calls = [c \in Callers |-> 0]
    /\ run = [c \in Callers |-> IdleRun]
    /\ task = [c \in Callers |-> IdleTask]
    /\ redis = EmptyRedis
    /\ redis_keys = EmptyKeys
    /\ repository = IdleRepository
    /\ api = IdleApi
    /\ http = IdleHttp
    /\ \E body \in Bodies, redact_for_llm \in BOOLEAN :
          prompt = [builder |-> [body_truncation_limit |-> BodyTruncationLimit,
                                 shrink_body_limit |-> ShrinkBodyLimit,
                                 candidate_top_n |-> CandidateTopN,
                                 shrink_top_n |-> ShrinkTopN,
                                 redact_for_llm |-> redact_for_llm],
                    request |-> [email |-> [body_text_canonical |-> body,
                                            pii_entities |-> PiiEntities(body)],
                                 candidate_keywords |-> CandidateKeywords(MaxCandidates)],
                    built |-> [kind |-> "none"]]

NextPrompt == StandardPrompt \/ ShrinkPrompt \/ FallbackPrompt

SpecPrompt == InitPrompt /\ [][NextPrompt]_vars

Built == prompt.built.kind = "built"

\* C19: the prompt of an attempt is assembled in shrink mode exactly when the
\* attempt belongs to the shrink state; then the body sent has at most
\* shrink_body_limit characters and at most shrink_top_n candidates, while the
\* standard and fallback states use body_truncation_limit and candidate_top_n.
C19_ShrinkModeIffShrinkState ==
    Built =>
        LET b == prompt.built.prompt
            original == prompt.request.email.body_text_canonical
            given == prompt.request.candidate_keywords
        IN
        /\ b.ok
        /\ b.value.metadata.shrink_mode <=> (prompt.built.strategy = "shrink")
        /\ prompt.built.strategy = "shrink" =>
              /\ Len(b.value.body) <= ShrinkBodyLimit
              /\ Len(b.value.candidate_keywords) <= ShrinkTopN
              /\ b.value.candidate_keywords = SubSeq(given, 1, Min(ShrinkTopN, Len(given)))
        /\ prompt.built.strategy \in {"standard", "fallback"} =>
              /\ Len(b.value.body) <= BodyTruncationLimit
              /\ Len(original) <= BodyTruncationLimit => b.value.body = original
              /\ Len(b.value.candidate_keywords) <= CandidateTopN
              /\ b.value.candidate_keywords = SubSeq(given, 1, Min(CandidateTopN, Len(given)))

\* a body between the two limits: cut in the shrink state
C19_Witness ==
    /\ Built
    /\ prompt.built.strategy = "shrink"
    /\ prompt.built.prompt.ok
    /\ Len(prompt.request.email.body_text_canonical) > ShrinkBodyLimit
    /\ Len(prompt.request.email.body_text_canonical) <= BodyTruncationLimit
    /\ prompt.built.prompt.value.metadata.truncation_applied
    /\ Len(prompt.built.prompt.value.candidate_keywords) = ShrinkTopN

\* the places of the first limit characters where a '.', '!' or '?' is
\* followed by whitespace
MarksBeforeWhitespace(text, limit) ==
    {i \in 1..(Min(limit, Len(text)) - 1) : text[i] \in Punctuation /\ text[i + 1] \in Whitespace}

C21_PiiSpansAdjusted ==
    Built =>
        LET entities == prompt.request.email.pii_entities
            T == Len(TruncateAtSentenceBoundary(prompt.request.email.body_text_canonical,
                                                BodyLimit(prompt.builder,
                                                          ShrinkMode(prompt.built.strategy))))
            kept == SelectSeq(entities, LAMBDA e : e.span_start < T)
            got == AdjustPiiSpansAfterTruncation(entities, T)
        IN
        /\ Len(got) = Len(kept)
        /\ \A i \in DOMAIN kept :
              /\ got[i].span_start = kept[i].span_start
              /\ got[i].span_end = Min(kept[i].span_end, T)
              /\ got[i].type = kept[i].type

(***************************************************************************)
(* The batch endpoint POST /triage/batch.  The body is parsed into a       *)
(* BatchSubmitRequest by the framework, then submit_batch validates every  *)
(* request and only then hands them to the broker, one delay() each.       *)
(***************************************************************************)
BatchLimit == 100

\* the batch sizes tried: the small ones and those around the limit
MaxSmallBatch == 2
MaxOver == 2
MaxSubmits == 3

BatchSizes == (0..MaxSmallBatch) \cup ((BatchLimit - 1)..(BatchLimit + MaxOver))

\* a request as the client sends it (config_overrides left out), and the
\* dummy of the integration test, which is no TriageRequest
RequestDict(i) == [email |-> [uid |-> i], dictionary_version |-> 1]
DummyDict == [dummy |-> "request"]

\* the request list of n entries, entry bad (if any) being invalid
BatchRequests(n, bad) == [i \in 1..n |-> IF i = bad THEN DummyDict ELSE RequestDict(i)]

\* TriageRequest.model_validate(req_dict) followed by model_dump(mode="json"):
\* missing or unknown fields are refused, the default of config_overrides is filled in
ValidateAndDump(req_dict) ==
    IF /\ {"email", "dictionary_version"} \subseteq DOMAIN req_dict
       /\ DOMAIN req_dict \subseteq {"email", "dictionary_version", "config_overrides"}
    THEN Ok([email |-> req_dict.email,
             dictionary_version |-> req_dict.dictionary_version,
             config_overrides |-> IF "config_overrides" \in DOMAIN req_dict
                                  THEN req_dict.config_overrides ELSE None])
    ELSE Raise("ValidationError", [field |-> "email"])

\* BatchSubmitRequest.requests: min_length=1, max_length=100
BatchSubmitRequestAccepts(requests) == Len(requests) >= 1 /\ Len(requests) <= BatchLimit


\* the loop of delay() calls taking one request only
SubmitTasksFirstOnly(validated_requests, first_id) ==
    [i \in 1..Min(1, Len(validated_requests)) |-> [id |-> first_id + i, args |-> validated_requests[i]]]

\* the loop of delay() calls: one job per validated request, in list order,
\* each with a fresh task id
SubmitTasks(validated_requests, first_id) ==
    [i \in 1..Len(validated_requests) |-> [id |-> first_id + i, args |-> validated_requests[i]]]

\* the validation loop accepting what it can: the dumps of the requests before
\* the first invalid one
ValidateEachPrefix(requests) ==
    LET invalid == {i \in DOMAIN requests : ~ValidateAndDump(requests[i]).ok}
        stop == IF invalid = {} THEN Len(requests) ELSE Min(Len(requests), SetMin(invalid) - 1)
    IN Ok([i \in 1..stop |-> ValidateAndDump(requests[i]).value])

\* routes_async.py:77-91: every request is validated and dumped, in list
\* order; the first invalid one raises HTTPException(400)
ValidateEach(requests) ==
    LET invalid == {i \in DOMAIN requests : ~ValidateAndDump(requests[i]).ok} IN
    IF invalid # {}
    THEN Raise("HTTPException", [index |-> SetMin(invalid) - 1])
    ELSE Ok([i \in DOMAIN requests |-> ValidateAndDump(requests[i]).value])

SubmitBatch(requests) ==
    LET validated_requests == ValidateEach(requests)
        jobs == SubmitTasks(validated_requests.value, Len(api.queue))
        task_ids == [i \in DOMAIN jobs |-> jobs[i].id]
        rejected(response) ==
            api' = [api EXCEPT !.response = response, !.requests = requests,
                               !.queue_before = Len(api.queue), !.submitted = @ + 1]
    IN
    /\ api.submitted < MaxSubmits
    /\ UNCHANGED << retry_vars, repo_vars, prompt_vars, http >>
    /\ IF ~BatchSubmitRequestAccepts(requests)
       THEN rejected(HttpError(422, "requests"))
       ELSE IF Len(requests) > BatchLimit
       THEN rejected(HttpError(400, "Batch size exceeds maximum (100 requests)"))
       ELSE IF ~validated_requests.ok
       THEN rejected(HttpError(400, "Invalid request at index"))
       ELSE api' = [queue |-> api.queue \o jobs,
                    response |-> [kind |-> "BatchSubmitResponse", status_code |-> 202,
                                  batch_id |-> api.submitted + 1,
                                  task_count |-> Len(task_ids), task_ids |-> task_ids],
                    requests |-> requests,
                    queue_before |-> Len(api.queue),
                    submitted |-> api.submitted + 1]

\* a batch with no invalid request, or with its first or its last one invalid
Submit == \E n \in BatchSizes : \E bad \in {0, 1, n} : SubmitBatch(BatchRequests(n, bad))

\* the application at start-up: nothing queued, no worker running
InitApi ==
    /\ settings = [MAX_RETRIES |-> 0, FALLBACK_MODELS |-> << >>]
    /\ validation_pipeline = "ValidationPipeline"
    /\ llm_outputs = {}
    /\ clients = {}
    /\ engine = [c \in Callers |-> c]
    /\ current_model_index = [c \in Callers |-> 0]
    /\ calls = [c \in Callers |-> 0]
    /\ run = [c \in Callers |-> IdleRun]
    /\ task = [c \in Callers |-> IdleTask]
    /\ redis = EmptyRedis
    /\ redis_keys = EmptyKeys
    /\ repository = IdleRepository
    /\ prompt = NoPrompt
    /\ api = IdleApi
    /\ http = IdleHttp

NextApi == Submit

SpecApi == InitApi /\ [][NextApi]_vars
Answered == api.response.kind # "none"

\* the jobs the last call of submit_batch put on the queue
Enqueued == SubSeq(api.queue, api.queue_before + 1, Len(api.queue))

AllValid(requests) == \A i \in DOMAIN requests : ValidateAndDump(requests[i]).ok

Accepted ==
    /\ api.response.kind = "BatchSubmitResponse"
    /\ api.response.task_count = Len(api.requests)
    /\ Len(api.response.task_ids) = Len(api.requests)
    /\ Len(Enqueued) = Len(api.requests)
    /\ \A i \in DOMAIN api.requests :
          /\ Enqueued[i].args = ValidateAndDump(api.requests[i]).value
          /\ Enqueued[i].id = api.response.task_ids[i]

RejectedWithoutJob ==
    /\ api.response.kind = "error"
    /\ api.response.status_code \in 400..499
    /\ Enqueued = << >>

\* C22 as stated: a batch of more than 100 requests is rejected with a client
\* error and enqueues no job; a batch of n <= 100 valid requests enqueues
\* exactly n jobs, one per request in request order, and returns n job ids
\* with task_count = n.
C22_BatchEnqueuesAll ==
    Answered =>
        /\ Len(api.requests) > BatchLimit => RejectedWithoutJob
        /\ (Len(api.requests) <= BatchLimit /\ AllValid(api.requests)) => Accepted

\* C22 amended: the same for 1 <= n <= 100; the empty batch is rejected with a
\* client error like the oversized one, and so is a batch holding an invalid
\* request, and none of the three enqueues a job.
C22_BatchEnqueuesAllNonEmpty ==
    Answered =>
        /\ (Len(api.requests) > BatchLimit \/ Len(api.requests) = 0 \/ ~AllValid(api.requests))
              => RejectedWithoutJob
        /\ (Len(api.requests) \in 1..BatchLimit /\ AllValid(api.requests)) => Accepted

\* a full batch of 100 accepted after an earlier batch is already on the queue
C22_Witness ==
    /\ Accepted
    /\ Len(api.requests) = BatchLimit
    /\ api.queue_before > 0
    /\ api.response.task_ids[1] # 1

(***************************************************************************)
(* One call of OllamaClient.generate: the loop                             *)
(*     for attempt in range(1, self.max_retries + 1)                       *)
(* around client.post, with its except clauses.  The trace records every   *)
(* HTTP request sent and every asyncio.sleep, in order.                    *)
(***************************************************************************)
MaxClientRetries == 3

\* what one pass of the try block can meet
StatusCodes == {200, 301, 400, 404, 429, 500, 503}
HttpOutcomes ==
    {[kind |-> "protocol"], [kind |-> "timeout"], [kind |-> "network"],
     [kind |-> "bad_json"], [kind |-> "empty"]}
    \cup {[kind |-> "status", status_code |-> c] : c \in StatusCodes}

\* the classes of llm/exceptions.py, each with its base class
ExceptionBase ==
    [LLMClientError |-> "Exception",
     LLMConnectionError |-> "LLMClientError",
     LLMGenerationError |-> "LLMClientError",
     LLMSchemaViolationError |-> "LLMClientError",
     LLMRateLimitError |-> "LLMClientError",
     LLMTimeoutError |-> "LLMConnectionError",
     LLMModelNotAvailableError |-> "LLMGenerationError"]

RECURSIVE IsInstance(_, _)
IsInstance(type, class) ==
    \/ type = class
    \/ type \in DOMAIN ExceptionBase /\ IsInstance(ExceptionBase[type], class)

\* a backoff that does not grow
ClientBackoffFlat(attempt) == 2

\* backoff = 2 ** attempt
ClientBackoff(attempt) == 2 ^ attempt

Post(attempt, outcome) == [ev |-> "post", attempt |-> attempt, outcome |-> outcome]
Sleep(seconds) == [ev |-> "sleep", seconds |-> seconds]

\* the error the iteration leaves in last_error or raises at once, and
\* whether the loop may go on after it
Handled(outcome, attempt) ==
    CASE outcome.kind = "timeout" ->
            [retryable |-> TRUE, error |-> Raise("LLMTimeoutError", [attempt |-> attempt])]
      [] outcome.kind = "network" ->
            [retryable |-> TRUE, error |-> Raise("LLMConnectionError", [attempt |-> attempt])]
      [] outcome.kind = "status" /\ outcome.status_code = 404 ->
            [retryable |-> FALSE,
             error |-> Raise("LLMModelNotAvailableError", [status |-> outcome.status_code])]
      [] outcome.kind = "status" /\ outcome.status_code >= 500 ->
            [retryable |-> TRUE,
             error |-> Raise("LLMGenerationError", [status |-> outcome.status_code])]
      [] outcome.kind = "status" /\ outcome.status_code # 200 ->
            [retryable |-> FALSE,
             error |-> Raise("LLMGenerationError", [status |-> outcome.status_code])]
      [] outcome.kind = "bad_json" ->
            [retryable |-> FALSE, error |-> Raise("LLMGenerationError", [parse_error |-> "json"])]
      [] OTHER ->
            \* another transport error of httpx, or the "Empty response" error
            \* raised inside the try block: both end in the last except clause
            [retryable |-> FALSE, error |-> Raise("LLMGenerationError", [error_type |-> outcome.kind])]

\* generate() is entered: payload built, loop not started
Generate ==
    /\ http.pc = "idle"
    /\ http' = [http EXCEPT !.pc = "loop"]
    /\ UNCHANGED << retry_vars, repo_vars, prompt_vars, api >>

\* one pass of the loop body
HttpAttempt(outcome) ==
    LET attempt == http.attempt + 1
        sent == << Post(attempt, outcome) >>
        h == Handled(outcome, attempt)
    IN
    /\ http.pc = "loop"
    /\ attempt <= http.max_retries
    /\ UNCHANGED << retry_vars, repo_vars, prompt_vars, api >>
    /\ IF outcome.kind = "status" /\ outcome.status_code = 200
       THEN http' = [http EXCEPT !.attempt = attempt, !.trace = @ \o sent, !.pc = "done",
                                 !.result = Ok([content |-> "json", attempt |-> attempt])]
       ELSE IF h.retryable /\ attempt < http.max_retries
       THEN http' = [http EXCEPT !.attempt = attempt,
                                 !.trace = @ \o sent \o << Sleep(ClientBackoff(attempt)) >>]
       ELSE http' = [http EXCEPT !.attempt = attempt, !.trace = @ \o sent, !.pc = "done",
                                 !.result = h.error]

\* the statements after the loop, reached only when the range is empty
AfterLoop ==
    /\ http.pc = "loop"
    /\ http.attempt >= http.max_retries
    /\ http' = [http EXCEPT !.pc = "done",
                            !.result = Raise("LLMGenerationError", [message |-> "Generation failed after all retries"])]
    /\ UNCHANGED << retry_vars, repo_vars, prompt_vars, api >>

InitClient ==
    /\ settings = [MAX_RETRIES |-> 0, FALLBACK_MODELS |-> << >>]
    /\ validation_pipeline = "ValidationPipeline"
    /\ llm_outputs = {}
    /\ clients = {}
    /\ engine = [c \in Callers |-> c]
    /\ current_model_index = [c \in Callers |-> 0]
    /\ calls = [c \in Callers |-> 0]
    /\ run = [c \in Callers |-> IdleRun]
    /\ task = [c \in Callers |-> IdleTask]
    /\ redis = EmptyRedis
    /\ redis_keys = EmptyKeys
    /\ repository = IdleRepository
    /\ prompt = NoPrompt
    /\ api = IdleApi
    /\ \E max_retries \in 0..MaxClientRetries : http = [IdleHttp EXCEPT !.max_retries = max_retries]

NextClient == Generate \/ (\E outcome \in HttpOutcomes : HttpAttempt(outcome)) \/ AfterLoop

SpecClient == InitClient /\ [][NextClient]_vars

Posts == {k \in DOMAIN http.trace : http.trace[k].ev = "post"}
Sleeps == {k \in DOMAIN http.trace : http.trace[k].ev = "sleep"}
RetryableOutcome(outcome) ==
    \/ outcome.kind \in {"timeout", "network"}
    \/ outcome.kind = "status" /\ outcome.status_code >= 500

\* C23: one generate call sends at most max_retries HTTP requests; a further
\* request follows only a timeout, a network/connect error or a 5xx answer,
\* after a sleep of 2^attempt seconds; no sleep follows the last request; a
\* 404 raises LLMModelNotAvailableError and another 4xx LLMGenerationError
\* with no further request; a timeout of the last request raises
\* LLMTimeoutError, a connection-class error.
C23_ClientRetryLoop ==
    LET trace == http.trace
        last == trace[Len(trace)]
    IN
    /\ Cardinality(Posts) <= http.max_retries
    /\ \A k \in Posts : k > 1 =>
          /\ trace[k - 1].ev = "sleep"
          /\ trace[k - 2].ev = "post" /\ RetryableOutcome(trace[k - 2].outcome)
    /\ \A k \in Sleeps :
          /\ k > 1 /\ trace[k - 1].ev = "post"
          /\ RetryableOutcome(trace[k - 1].outcome)
          /\ trace[k].seconds = 2 ^ trace[k - 1].attempt
          /\ trace[k - 1].attempt < http.max_retries
          /\ http.pc = "done" => k < Len(trace)
    /\ (http.pc = "loop" /\ trace # << >>) => last.ev = "sleep"
    /\ (http.pc = "done" /\ trace # << >> /\ last.outcome.kind = "status") =>
          /\ last.outcome.status_code = 404 =>
                ~http.result.ok /\ http.result.type = "LLMModelNotAvailableError"
          /\ (last.outcome.status_code \in 400..499 /\ last.outcome.status_code # 404) =>
                ~http.result.ok /\ http.result.type = "LLMGenerationError"
    /\ (http.pc = "done" /\ trace # << >> /\ last.outcome.kind = "timeout") =>
          /\ ~http.result.ok /\ http.result.type = "LLMTimeoutError"
          /\ IsInstance(http.result.type, "LLMConnectionError")
          /\ last.attempt = http.max_retries

\* three requests: a network error, a 503 and a timeout, with sleeps of 2 and 4
\* seconds between them and LLMTimeoutError at the end
C23_Witness ==
    /\ http.pc = "done"
    /\ http.max_retries = 3
    /\ Len(http.trace) = 5
    /\ http.trace[1].outcome.kind = "network"
    /\ http.trace[2] = Sleep(2)
    /\ http.trace[3].outcome.kind = "status"
    /\ http.trace[4] = Sleep(4)
    /\ http.trace[5].outcome.kind = "timeout"
    /\ ~http.result.ok /\ http.result.type = "LLMTimeoutError"

(***************************************************************************)
(* The attempt counter of a run and what is derived from it.               *)
(***************************************************************************)
\* C24: within one execute_with_retry call the attempts are made one after
\* the other, each step of the run making at most one strategy call and
\* raising total_attempts by exactly 1 with it; a run that returns reports
\* llm_metadata.attempt_number = total_attempts, and the TriageResult the job
\* builds from it has retries_used = total_attempts - 1.
C24_AttemptCounter ==
    [][\A w \in Callers :
          /\ run[w].status = "running" /\ run'[w].status # "idle" =>
                /\ Len(run'[w].executed) - Len(run[w].executed) \in {0, 1}
                /\ run'[w].total_attempts - run[w].total_attempts
                      = Len(run'[w].executed) - Len(run[w].executed)
                /\ run'[w].total_attempts = Len(run'[w].executed)
          /\ run'[w].status = "returned" =>
                /\ run'[w].result.retry_metadata.total_attempts = run'[w].total_attempts
                /\ run'[w].result.retry_metadata.llm_metadata.attempt_number
                      = run'[w].total_attempts
          /\ task[w].pc = "running" /\ task'[w].pc = "SUCCESS" =>
                task'[w].returned.retries_used = run[w].total_attempts - 1]_vars

\* a job that succeeded at its third attempt: two retries used
C24_Witness ==
    /\ task["c1"].pc = "SUCCESS"
    /\ task["c1"].runs = 1
    /\ task["c1"].returned.retries_used = 2

\* C25: at the end of a run validation_failures holds exactly one details
\* entry for each attempt that failed with a ValidationError, in attempt
\* order; its length is total_attempts - 1 when the run returned and
\* total_attempts when it ended in RetryExhausted.
C25_ValidationFailuresPerAttempt ==
    \A c \in Callers :
        (run[c].status \in {"returned", "exhausted"}) =>
            LET m == run[c].result.retry_metadata
                failed == SelectSeq(run[c].executed,
                                    LAMBDA x : ~x.outcome.ok /\ IsValidationError(x.outcome))
            IN
            /\ Len(m.validation_failures) = Len(failed)
            /\ \A i \in DOMAIN failed : m.validation_failures[i] = failed[i].outcome.details
            /\ run[c].status = "returned" => Len(m.validation_failures) = m.total_attempts - 1
            /\ run[c].status = "exhausted" => Len(m.validation_failures) = m.total_attempts

\* a run that ended in RetryExhausted after failures of different kinds,
\* recorded in the order of the attempts
C25_Witness ==
    \E c \in Callers :
        /\ run[c].status = "exhausted"
        /\ run[c].result.retry_metadata.total_attempts = 3
        /\ Len(run[c].result.retry_metadata.validation_failures) = 3
        /\ run[c].result.retry_metadata.validation_failures[1]
              # run[c].result.retry_metadata.validation_failures[2]
        /\ run[c].result.retry_metadata.validation_failures[1]
              = run[c].executed[1].outcome.details

\* the attempts of a run in which client.generate was called
GenerateCalls(c) == {i \in DOMAIN run[c].executed : run[c].executed[i].model # None}

\* C26: for every configuration, an empty fallback-model list included,
\* total_attempts of the RetryMetadata equals the number of generate calls the
\* engine issued to the gateway for the request.
C26_AttemptsAreGenerateCalls ==
    \A c \in Callers :
        (run[c].status \in {"returned", "exhausted"}) =>
            run[c].result.retry_metadata.total_attempts = Cardinality(GenerateCalls(c))

\* C27: with FALLBACK_MODELS empty and every attempt of the standard and
\* shrink states failing validation, the RetryExhausted raised reports
\* strategies_used = [standard, shrink], final_strategy = shrink,
\* total_attempts = MAX_RETRIES + 2 and MAX_RETRIES + 2 validation failures:
\* the fallback state adds no attempt and no failure entry.
C27_EmptyFallbackAddsNothing ==
    \A c \in Callers :
        (run[c].status = "exhausted" /\ settings.FALLBACK_MODELS = << >>) =>
            LET m == run[c].result.retry_metadata IN
            /\ m.strategies_used = << "standard", "shrink" >>
            /\ m.final_strategy = "shrink"
            /\ m.total_attempts = settings.MAX_RETRIES + ShrinkMaxAttempts
            /\ Len(m.validation_failures) = settings.MAX_RETRIES + ShrinkMaxAttempts
            /\ \A i \in DOMAIN run[c].executed : run[c].executed[i].strategy # "fallback"

(***************************************************************************)
(* Termination of execute_with_retry.  Every await of the loop returns     *)
(* (the gateway call and the validation), so a run that can take a step    *)
(* takes it: weak fairness on the steps of each caller's run.  The engine  *)
(* is a newly built one and serves one call.                               *)
(***************************************************************************)
RunStep(c) == NextStrategy(c) \/ Attempt(c) \/ RaiseRetryExhausted(c)

FirstCall(c) == calls[c] = 0 /\ Call(c)

NextFair == \E c \in Callers : FirstCall(c) \/ RunStep(c)

SpecFair == Init /\ [][NextFair]_vars /\ \A c \in Callers : WF_vars(RunStep(c))

AttemptBound == settings.MAX_RETRIES + ShrinkMaxAttempts + Max(Len(settings.FALLBACK_MODELS), 1)

Ended(c) == run[c].status \in {"returned", "exhausted", "raised"}

\* the constructor of RetryMetadata refused the values of the run
MetadataRefused(c) ==
    /\ run[c].status = "raised"
    /\ run[c].result.exception.type = "ValueError"
    /\ "message" \in DOMAIN run[c].result.exception.details
    /\ run[c].result.exception.details.message \in {"total_attempts", "strategies_used", "final_strategy"}

StoredFor(w) == {x \in redis.results : x.task_id = w}

\* C29: whenever a job has reported SUCCESS its TriageResult can be read from
\* the store through the job id: a job does not report SUCCESS when
\* save_result returned False.
C29_SuccessMeansStored ==
    \A w \in Callers : task[w].pc = "SUCCESS" => StoredFor(w) # {}

\* the step puts the job of w back on the queue
Requeued(w) == task[w].pc # "queued" /\ task'[w].pc = "queued"

\* the body of w is failing for a reason outside the ladder: an exception
\* that is not RetryExhausted left the engine, or Redis refused the DLQ entry
InfrastructureFailure(w) ==
    /\ task[w].pc = "running"
    /\ \/ run[w].status = "raised"
       \/ run[w].status = "exhausted" /\ redis' = redis

\* C30: the body of a job is executed at most 1 + 3 times, and the queue
\* executes it again only after an infrastructure or unexpected failure,
\* never after the result (or the DLQ entry of an exhausted request) was
\* saved; a job in SUCCESS or FAILURE stays there.
C30_RerunOnlyAfterFailure ==
    [][\A w \in Callers :
          /\ task'[w].runs <= 1 + TaskMaxRetries
          /\ Requeued(w) => InfrastructureFailure(w)
          /\ task[w].pc \in {"SUCCESS", "FAILURE"} => task'[w] = task[w]
      ]_vars

(***************************************************************************)
(* What save_result writes.                                                *)
(***************************************************************************)
\* the step is a call of save_result
SaveStep ==
    /\ repository'.last_call.op = "save_result"
    /\ repository'.now = repository.now
    /\ << redis_keys, repository >>' # << redis_keys, repository >>

\* the key name holds value and expires ttl seconds after the step
Written(name, value) ==
    \E k \in redis_keys'.strings :
        /\ k.name = name /\ k.value = value
        /\ k.expire_at = repository.now + settings.RESULT_TTL_SECONDS

\* the result the call that returned True was given
SavedNow(uid) == CHOOSE e \in repository'.saved : e.request_uid = uid

ReturnedBool == repository'.last_call.value \in {PyBool(TRUE), PyBool(FALSE)}

ReturnedFalseAtFault ==
    LET call == repository'.last_call IN
    /\ call.value = PyBool(FALSE) <=> call.fault # "none"
    /\ call.fault = "setex" => redis_keys' = redis_keys
    /\ call.fault = "zadd" => redis_keys'.zset = redis_keys.zset
    /\ call.fault # "none" =>
          \A k \in redis_keys'.strings : k.name[1] = TASK_PREFIX => k \in redis_keys.strings

\* C31: save_result never raises; it returns True only if the
\* result key, the index entry and, when a job id is given, the task-to-uid
\* mapping were all written, both keys with the same TTL; it returns False as
\* soon as a store operation fails.
C31_SaveWritesAll ==
    [][SaveStep =>
         LET call == repository'.last_call IN
         /\ ReturnedBool
         /\ ReturnedFalseAtFault
         /\ call.value = PyBool(TRUE) =>
               /\ Written(ResultKey(call.request_uid),
                          ModelDumpJson(SavedNow(call.request_uid).result))
               /\ call.request_uid \in redis_keys'.zset
               /\ call.task_id # PyNone =>
                     Written(TaskKey(call.task_id.v), PyStr(call.request_uid))
      ]_vars

(***************************************************************************)
(* The dead letter queue read back.                                        *)
(***************************************************************************)
MaxDlqSaves == 3
MaxLimit == 3

\* the limits get_dlq_entries is called with: limit is an int, unchecked
DlqLimits == 0..MaxLimit

\* LRANGE key start stop on a list of n elements: the positions returned,
\* a negative index counting from the tail
LRangePositions(n, start, stop) ==
    LET from == IF start < 0 THEN Max(n + start, 0) ELSE start
        to == IF stop < 0 THEN n + stop ELSE Min(stop, n - 1)
    IN {i \in 0..(n - 1) : from <= i /\ i <= to}

\* LRANGE on triage:dlq: the entries pushed here that are in range, newest
\* first, and how many of the older entries behind them
LRange(list, start, stop) ==
    LET positions == LRangePositions(Len(list.new) + list.prior, start, stop)
    IN [new |-> SubSeq(list.new, 1, Cardinality({i \in positions : i < Len(list.new)})),
        prior |-> Cardinality({i \in positions : i >= Len(list.new)})]

\* repository.py:207-258 for one exhausted request: LPUSH, then LTRIM, True
\* when both went through; the entry carries the time of the save
SaveToDlq ==
    \E uid \in Uids, o1 \in RedisOutcomes, o2 \in RedisOutcomes :
        LET dlq_entry == [request_uid |-> uid, timestamp |-> repository.saves + 1]
            pushed == IF o1 = "ok" THEN LPush(redis.dlq, dlq_entry) ELSE redis.dlq
            trimmed == IF o1 = "ok" /\ o2 = "ok" THEN LTrim(pushed, DlqTrimStop) ELSE pushed
        IN
        /\ repository.saves < MaxDlqSaves
        /\ redis' = [redis EXCEPT !.dlq = trimmed]
        /\ repository' = [repository EXCEPT
                            !.saves = @ + 1,
                            !.last_call = [op |-> "save_to_dlq", entry |-> dlq_entry,
                                           value |-> PyBool(o1 = "ok" /\ o2 = "ok")]]
        /\ UNCHANGED << edge_vars, prompt_vars, redis_keys, settings, validation_pipeline,
                        llm_outputs, clients, engine, current_model_index, calls, run, task >>

\* repository.py:260-286: LRANGE 0 limit-1, the empty list when Redis fails
GetDlqEntries ==
    \E limit \in DlqLimits, o \in RedisOutcomes :
        /\ repository' = [repository EXCEPT
                            !.last_call = [op |-> "get_dlq_entries", limit |-> limit, redis |-> o,
                                           value |-> IF o = "ok" THEN LRange(redis.dlq, 0, limit - 1)
                                                     ELSE [new |-> << >>, prior |-> 0]]]
        /\ UNCHANGED << edge_vars, prompt_vars, redis_keys, retry_vars >>

\* the store with triage:dlq empty or one entry short of its cap or full
InitDlq ==
    /\ settings = [MAX_RETRIES |-> 0, FALLBACK_MODELS |-> << >>, RESULT_TTL_SECONDS |-> 1]
    /\ validation_pipeline = "ValidationPipeline"
    /\ llm_outputs = {}
    /\ clients = {}
    /\ engine = [c \in Callers |-> c]
    /\ current_model_index = [c \in Callers |-> 0]
    /\ calls = [c \in Callers |-> 0]
    /\ run = [c \in Callers |-> IdleRun]
    /\ task = [c \in Callers |-> IdleTask]
    /\ \E backlog \in {0, 1, DlqTrimStop, DlqTrimStop + 1} :
          redis = [EmptyRedis EXCEPT !.dlq.prior = backlog]
    /\ redis_keys = EmptyKeys
    /\ repository = IdleRepository
    /\ prompt = NoPrompt
    /\ api = IdleApi
    /\ http = IdleHttp

NextDlq == SaveToDlq \/ GetDlqEntries

SpecDlq == InitDlq /\ [][NextDlq]_vars

\* the first n entries of the list, newest first
Newest(list, n) ==
    [new |-> SubSeq(list.new, 1, Min(n, Len(list.new))),
     prior |-> Min(list.prior, Max(n - Len(list.new), 0))]

\* C34: get_dlq_entries(limit) returns the min(limit, DLQ length) most recently
\* saved DLQ entries, newest first; when a save makes the list exceed the cap,
\* the entries removed by trimming are the oldest ones and the entry just
\* saved is kept.
C34_NewestEntries ==
    [][/\ GetDlqEntries /\ repository'.last_call.redis = "ok" =>
            repository'.last_call.value = Newest(redis.dlq, repository'.last_call.limit)
       /\ SaveToDlq /\ repository'.last_call.value = PyBool(TRUE) =>
            redis'.dlq = Newest(LPush(redis.dlq, repository'.last_call.entry), DlqTrimStop + 1)
      ]_vars

(***************************************************************************)
(* Reading a result through the job id.                                    *)
(***************************************************************************)
\* the result save_result was last given together with the job id, if any
SavedWith(task_id) == {j.result : j \in {x \in repository.jobs : x.task_id = task_id}}

MappingLive(task_id) ==
    \E k \in Live(redis_keys.strings, repository.now) : k.name = TaskKey(task_id)

\* C32: get_result_by_task_id(jobId) returns the TriageResult that was passed
\* to save_result together with that job id, also when another job has later
\* saved a result for the same email uid; it returns None when the mapping or
\* the result is missing.
C32_ResultOfTheJob ==
    [][GetResultByTaskId =>
         LET call == repository'.last_call IN
         /\ call.value # PyNone => call.value \in SavedWith(call.task_id)
         /\ ~MappingLive(call.task_id) => call.value = PyNone
      ]_vars

(***************************************************************************)
(* The status and result routes when Celery has forgotten the job.         *)
(***************************************************************************)
Forgotten == [state |-> "PENDING", info |-> PyNone]

\* what the store holds for the job id when Redis answers
Stored(task_id) == GetResultByTaskIdValue(task_id, "ok", "ok")

\* C33: when Celery reports PENDING with no info and the store holds a result
\* mapped to the job id, the status route answers SUCCESS with that result and
\* the result route answers with that result; neither answers not-found or
\* pending.
C33_StoreFallback ==
    [][\A task_id \in JobIds :
         Stored(task_id) # PyNone =>
            /\ GetTaskStatusOf(task_id, Forgotten, "ok", "ok") =>
                  api'.response = TaskStatusResponse(task_id, "SUCCESS", Stored(task_id), PyNone)
            /\ GetTaskResultOf(task_id, Forgotten, "ok", "ok") =>
                  /\ api'.response.kind = "TriageResult"
                  /\ api'.response.result = Stored(task_id)
      ]_vars

(***************************************************************************)
(* The order of the stages and of the warnings.                            *)
(***************************************************************************)
\* C35: validate runs stage 1, stage 2 and stage 3 in that order and stops at
\* the first that fails, raising that stage's error kind (JSONParseError,
\* SchemaValidationError, BusinessRuleViolation); stage 4 and the verifiers run
\* only after stages 1 to 3 passed, and the warnings returned are those of
\* stage 4 followed by those of the evidence, keyword and span-coherence
\* verifiers in that order.
C35_StageOrder ==
    \A c \in Callers :
        (validation_pipeline = "ValidationPipeline" /\ run[c].llm_response \in Contents) =>
            LET request == Request(c)
                s1 == Stage1JSONParse(run[c].llm_response)
                s2 == Stage2SchemaValidation(s1.value)
                m == ModelValidate(s1.value)
                s3 == Stage3BusinessRules(m.value, request)
                s4 == Stage4QualityChecks(m.value)
                out == PipelineValidate(run[c].llm_response, request)
            IN
            IF ~s1.ok THEN out = s1 /\ out.type = "JSONParseError"
            ELSE IF ~s2.ok THEN out = s2 /\ out.type = "SchemaValidationError"
            ELSE IF ~m.ok THEN out = m /\ out.type = "SchemaValidationError"
            ELSE IF ~s3.ok THEN ~out.ok /\ out.type = "BusinessRuleViolation"
            ELSE /\ out.ok
                 /\ out.value.warnings = s4.value
                                         \o EvidencePresenceVerifier(m.value, request).value
                                         \o KeywordPresenceVerifier(m.value, request).value
                                         \o SpansCoherenceVerifier(m.value, request).value

(***************************************************************************)
(* The candidates a successful response cites.                             *)
(***************************************************************************)
\* stage3_business_rules.py:126: the ids a response may cite without being
\* rejected for an invented keyword
ValidCandidateIds(request) ==
    {request.candidate_keywords[i].candidate_id : i \in DOMAIN request.candidate_keywords}

\* the ids of the candidates given to the template of the prompt
RenderedIds(built) ==
    {built.candidate_keywords[i].candidate_id : i \in DOMAIN built.candidate_keywords}

LlmMetadataTruncationApplied(builder, request) ==
    Len(request.email.body_text_canonical) > builder.body_truncation_limit

\* C37: on success llm_metadata.truncation_applied is true exactly when the
\* body sent to the LLM in the successful attempt was a truncation of the
\* request body, also for a success in the shrink state, where the shrink body
\* limit is the one applied.
C37_TruncationFlag ==
    (prompt.built.kind = "built" /\ prompt.built.prompt.ok) =>
        (LlmMetadataTruncationApplied(prompt.builder, prompt.request)
            <=> prompt.built.prompt.value.metadata.truncation_applied)

(***************************************************************************)
(* truncate_at_sentence_boundary on its own, for every limit shorter than  *)
(* the longest body.                                                       *)
(***************************************************************************)
TruncationLimits == 1..(MaxBodyLen - 1)

InitTruncate ==
    /\ settings = [MAX_RETRIES |-> 0, FALLBACK_MODELS |-> << >>]
    /\ validation_pipeline = "ValidationPipeline"
    /\ llm_outputs = {}
    /\ clients = {}
    /\ engine = [c \in Callers |-> c]
    /\ current_model_index = [c \in Callers |-> 0]
    /\ calls = [c \in Callers |-> 0]
    /\ run = [c \in Callers |-> IdleRun]
    /\ task = [c \in Callers |-> IdleTask]
    /\ redis = EmptyRedis
    /\ redis_keys = EmptyKeys
    /\ repository = IdleRepository
    /\ api = IdleApi
    /\ http = IdleHttp
    /\ \E text \in Bodies, max_chars \in TruncationLimits :
          prompt = [text |-> text, max_chars |-> max_chars, called |-> FALSE, truncated |-> << >>]

\* text_utils.py:11-64 applied to the body
Truncate ==
    /\ ~prompt.called
    /\ prompt' = [prompt EXCEPT !.called = TRUE,
                                !.truncated = TruncateAtSentenceBoundary(prompt.text, prompt.max_chars)]
    /\ UNCHANGED << retry_vars, repo_vars, edge_vars >>

NextTruncate == Truncate

SpecTruncate == InitTruncate /\ [][NextTruncate]_vars

\* a sentence boundary in the first max_chars characters
HasSentenceBoundary(text, max_chars) ==
    \E i \in 1..max_chars :
        /\ text[i] \in Punctuation
        /\ (i = max_chars \/ text[i + 1] \in Whitespace)

\* the whitespace positions of the first max_chars characters, counted from 0
WhitespacePositions(text, max_chars) == {i - 1 : i \in {j \in 1..max_chars : text[j] \in Whitespace}}

\* C38: when the body is longer than the limit L and its first L characters
\* contain no sentence boundary, truncation cuts at the last whitespace
\* position p of those L characters whenever p >= 0.8*L, also for p exactly
\* 0.8*L, and hard-cuts at L only when p < 0.8*L or there is no whitespace.
C38_WordBoundaryFromEightTenths ==
    LET text == prompt.text
        L == prompt.max_chars
        positions == WhitespacePositions(text, L)
    IN
    (/\ prompt.called
     /\ Len(text) > L
     /\ ~HasSentenceBoundary(text, L)) =>
        IF positions # {} /\ 10 * SetMax(positions) >= 8 * L
        THEN prompt.truncated = SubSeq(text, 1, SetMax(positions))
        ELSE prompt.truncated = SubSeq(text, 1, L)

(***************************************************************************)
(* A batch with an invalid request.                                        *)
(***************************************************************************)
\* C39: if any request of a batch fails request validation, submit_batch
\* enqueues no job at all: the validation of every request of the batch is
\* completed before the first job is enqueued.
C39_InvalidBatchEnqueuesNothing ==
    (Answered /\ ~AllValid(api.requests)) =>
        /\ api.response.kind = "error"
        /\ Enqueued = << >>

\* after an accepted batch, a batch is refused whose first request is valid
\* and whose last is not: the queue is as the first batch left it
C39_Witness ==
    /\ Answered
    /\ Len(api.requests) >= 2
    /\ ValidateAndDump(api.requests[1]).ok
    /\ ~ValidateAndDump(api.requests[Len(api.requests)]).ok
    /\ api.queue_before > 0
    /\ Len(api.queue) = api.queue_before
    /\ api.response = HttpError(400, "Invalid request at index")

====
